---- MODULE Spec2Model ----
(***************************************************************************)
(* xTap companion process: the record store (xtap_core.py), the stream     *)
(* host (xtap_host.py) and the HTTP daemon (xtap_daemon.py).               *)
(*                                                                         *)
(* Spec       : one process (stream host or HTTP daemon) serving decoded   *)
(*              requests against a small file system.                      *)
(* SpecWrite  : write_tweets called twice with the same batch and one      *)
(*              shared seen-id set.                                        *)
(* SpecStream : the stream host reading length-prefixed frames from stdin, *)
(*              chunk by chunk, and serving what it decodes.               *)
(* SpecFrame  : the stream host reading one frame that send_message built  *)
(*              around a JSON object.                                      *)
(* SpecDaemon : the HTTP daemon on raw requests (headers, paths, bodies)   *)
(*              with one download job whose thread runs beside the server  *)
(*              thread.                                                    *)
(* SpecTool   : the HTTP daemon with yt-dlp installed and two download     *)
(*              jobs.                                                      *)
(* SpecServe  : the HTTP daemon's server loop taking queued connections,   *)
(*              each handler run statement by statement.                   *)
(***************************************************************************)
EXTENDS Integers, Sequences, FiniteSets, TLC

(* ------------------------------ bounds --------------------------------- *)
MaxBatch == 2       \* longest tweets[] list of one request
MaxLines == 2       \* most lines the model lets the daily record files hold in all
MaxLog == 1         \* most lines the model lets the debug logs hold in all
MaxAttempts == 2    \* most load_seen_ids passes the model lets start on one directory
MaxWriteBatch == 3  \* longest batch handed to write_tweets in SpecWrite
MaxFrames == 2      \* most frames in the byte stream of SpecStream
MaxCut == 5         \* the stream may end within MaxCut bytes of either of its ends
MaxFrag == 16       \* reads asking for at most MaxFrag bytes may return any part
MaxSent == 3        \* most responses the model lets the stream host write
MaxText == 2        \* longest short text in a framed JSON object
MaxJobs == 2        \* job ids there are
MaxStarted == 1     \* most download jobs the model lets the daemon start in SpecDaemon
MaxConns == 2       \* connections queued at the daemon's socket in SpecServe

(* ------------------------------ values --------------------------------- *)
None == "None"      \* Python's None

\* record ids; NoId is the absent or empty id, which Python takes as false
Ids == {"1"}
NoId == ""

\* One line of a JSON-lines file / one element of tweets[].
\* k = "obj": a JSON object, id = NoId when the id is absent or empty;
\* k = "bad": not JSON; k = "nonobj": JSON but not an object; k = "blank";
\* k = "denied" stands for a file the process may not open for reading.
Tweet(i, a) == [k |-> "obj", id |-> i, art |-> a]
BadLine == [k |-> "bad", id |-> NoId, art |-> FALSE]
NonObjLine == [k |-> "nonobj", id |-> NoId, art |-> FALSE]
BlankLine == [k |-> "blank", id |-> NoId, art |-> FALSE]
Denied == [k |-> "denied", id |-> NoId, art |-> FALSE]

Records == {Tweet(NoId, FALSE)} \cup {Tweet(i, a) : i \in Ids, a \in BOOLEAN}

RECURSIVE SeqsUpTo(_, _)
SeqsUpTo(S, n) ==
  IF n = 0 THEN {<<>>}
  ELSE LET shorter == SeqsUpTo(S, n - 1)
       IN  shorter \cup {Append(s, x) : s \in {t \in shorter : Len(t) = n - 1}, x \in S}

Batches == SeqsUpTo(Records, MaxBatch)

(* ------------------------------ paths ---------------------------------- *)
\* A path is its sequence of segments; <<>> is the empty string.
Home == <<"home", "u">>

expanduser(p) == IF p # <<>> /\ Head(p) = "~" THEN Home \o Tail(p) ELSE p

DEFAULT_OUTPUT_DIR == expanduser(<<"~", "Downloads", "xtap">>)

CustomDir == <<"data", "a">>

\* outputDir values a request may carry (already stripped)
MsgDirs == {<<>>, <<"~", "Downloads", "xtap">>, CustomDir}

Dirs == {DEFAULT_OUTPUT_DIR, CustomDir}

\* file names inside a directory
TodayFile == "tweets-today.jsonl"      \* tweets-<date.today()>.jsonl
OldFile == "tweets-old.jsonl"          \* a record file of an earlier day
LogFile == "debug-today.log"
DumpFile == "dump.json"
FileNames == {TodayFile, OldFile, LogFile, DumpFile}

(* ------------------------------ inputs --------------------------------- *)
TextLine == [k |-> "bad", id |-> NoId, art |-> FALSE]
LogBatches == {<<TextLine>>}

\* content of a DUMP request, as the lines it would leave in the file
DumpContents == {<<>>, <<Tweet("1", FALSE)>>}

\* (filename, content) of a DUMP request
DumpTargets == {<<DumpFile, <<>> >>} \cup {<<TodayFile, c>> : c \in DumpContents}

\* what may lie in a record file before the process starts
InitContents == {<<BadLine, Tweet("1", FALSE), BlankLine>>, <<NonObjLine>>, <<Denied>>}

Msg(t, d, tw, fn, c, ls) ==
  [type |-> t, outputDir |-> d, tweets |-> tw, filename |-> fn, content |-> c, lines |-> ls]

Messages ==
  {Msg("GET_TOKEN", <<>>, <<>>, DumpFile, <<>>, <<>>)}
  \cup {Msg("TEST_PATH", d, <<>>, DumpFile, <<>>, <<>>) : d \in MsgDirs}
  \cup {Msg("DUMP", d, <<>>, t[1], t[2], <<>>) : d \in MsgDirs, t \in DumpTargets}
  \cup {Msg("LOG", d, <<>>, DumpFile, <<>>, ls) : d \in MsgDirs, ls \in LogBatches}
  \cup {Msg("TWEETS", d, tw, DumpFile, <<>>, <<>>) : d \in MsgDirs, tw \in Batches}

(* ------------------------------ state ---------------------------------- *)
VARIABLES
  transport,      \* "stream" (xtap_host.py) or "http" (xtap_daemon.py)
  phase,          \* "boot", "serving", "done" (loop left), "crashed" (uncaught exception)
  storage_ready,  \* xtap_host.main: storage_ready
  seen_ids,       \* the seen-id set (None in the host before storage init)
  custom_dirs,    \* the registry of bootstrapped requested directories
  exists,         \* directories that exist
  uncreatable,    \* directories os.makedirs cannot create
  files,          \* [dir -> [file name -> sequence of lines]]
  secret,         \* TRUE when ~/.xtap/secret can be read
  scans,          \* [dir -> number of completed load_seen_ids passes over it]
  attempts,       \* [dir -> number of load_seen_ids passes started on it]
  appended,       \* [dir -> [id -> non-article records with that id appended by write_tweets]]
  own,            \* [dir -> ids loaded from the directory's files or written to it]
  foreign,        \* ids the last request counted as duplicates in a directory they
                  \* were neither loaded from nor written to
  unloaded,       \* ids in the directory's record files that were missing from the
                  \* seen-id set when the last request's write_tweets began
  asked,          \* tweets[] of the last request, when write_tweets ran on it
  resp,           \* the last response sent (NoResp again once a job's thread has run)
  call,           \* SpecWrite: the inputs and results of the write_tweets calls
  io,             \* SpecStream: stdin, the reader's position and the responses sent
  _downloads,     \* xtap_core._downloads: [job id -> entry], only started ids
  tasks,          \* [job id -> the position and locals of the job's run() thread]
  ytdlp,          \* _ytdlp_checked, _ytdlp_path, and whether PATH holds yt-dlp
  handler,        \* SpecDaemon: the request the daemon's one server thread is in
  conns           \* SpecServe: [connection -> its request and its handler's position]

vars == <<transport, phase, storage_ready, seen_ids, custom_dirs, exists, uncreatable,
          files, secret, scans, attempts, appended, own, foreign, unloaded, asked, resp,
          call, io, _downloads, tasks, ytdlp, handler, conns>>

\* the variables of the download jobs and of the daemon's server thread
jobvars == <<_downloads, tasks, ytdlp, handler, conns>>

\* the variables of the process but the last response
storevars == <<transport, phase, storage_ready, seen_ids, custom_dirs, exists, uncreatable,
               files, secret, scans, attempts, appended, own, foreign, unloaded, asked>>

\* the variables of the process
procvars == <<transport, phase, storage_ready, seen_ids, custom_dirs, exists, uncreatable,
              files, secret, scans, attempts, appended, own, foreign, unloaded, asked, resp>>

(* ------------------------------ xtap_core ------------------------------ *)
XTAP_PORT == 17381
Token == "token-in-secret-file"

\* a response: status is the HTTP status (0 on the stream transport)
Resp(ok, kind, count, dupes, error, status) ==
  [ok |-> ok, kind |-> kind, count |-> count, dupes |-> dupes, error |-> error,
   token |-> "", port |-> 0, status |-> status]

NoResp == Resp(FALSE, "none", 0, 0, "", 0)

\* every line of every tweets-*.jsonl file of out_dir, in glob order
RecordLines(out_dir, fl) == fl[out_dir][TodayFile] \o fl[out_dir][OldFile]

LineSet(s) == {s[i] : i \in 1..Len(s)}

\* a load_seen_ids that gives up on the first line or file it cannot take and
\* returns what it has
load_seen_ids_partial(out_dir, fl) ==
  [err |-> "",
   ids |-> {l.id : l \in {m \in LineSet(RecordLines(out_dir, fl)) : m.k = "obj" /\ m.id # NoId}}]

\* load_seen_ids: open(path, 'r') raises PermissionError on a file that may not
\* be read; json.loads(line).get('id') raises AttributeError on a line that is
\* JSON but no object; only JSONDecodeError and KeyError are caught.
load_seen_ids(out_dir, fl) ==
  LET ls == LineSet(RecordLines(out_dir, fl))
  IN  [err |-> IF \E l \in ls : l.k = "denied" THEN "PermissionError"
               ELSE IF \E l \in ls : l.k = "nonobj" THEN "AttributeError" ELSE "",
       ids |-> {l.id : l \in {m \in ls : m.k = "obj" /\ m.id # NoId}}]

\* os.makedirs(d, exist_ok=True)
makedirs(d, ex) ==
  IF d \in ex THEN [err |-> "", exists |-> ex]
  ELSE IF d \in uncreatable THEN [err |-> "OSError", exists |-> ex]
  ELSE [err |-> "", exists |-> ex \cup {d}]

\* lines 44-46 without the registration of line 46
resolve_output_dir_forgets(msg_dir, default_dir, seen, custom, ex, fl) ==
  IF msg_dir # <<>> THEN
    LET out_dir == expanduser(msg_dir)
        mk == makedirs(out_dir, ex)
        ld == load_seen_ids(out_dir, fl)
    IN  IF mk.err # "" THEN
          [err |-> mk.err, out_dir |-> out_dir, seen |-> seen, custom |-> custom,
           exists |-> mk.exists, scanned |-> {}, tried |-> {}]
        ELSE IF out_dir # default_dir /\ out_dir \notin custom THEN
          [err |-> ld.err, out_dir |-> out_dir, seen |-> seen \cup ld.ids,
           custom |-> custom, exists |-> mk.exists, scanned |-> {out_dir}, tried |-> {out_dir}]
        ELSE
          [err |-> "", out_dir |-> out_dir, seen |-> seen, custom |-> custom,
           exists |-> mk.exists, scanned |-> {}, tried |-> {}]
  ELSE
    [err |-> "", out_dir |-> default_dir, seen |-> seen, custom |-> custom,
     exists |-> ex, scanned |-> {}, tried |-> {}]

\* resolve_output_dir: tried is the set of directories load_seen_ids was called
\* on, scanned those whose pass completed (a pass that raises returns no set)
resolve_output_dir(msg_dir, default_dir, seen, custom, ex, fl) ==
  IF msg_dir # <<>> THEN
    LET out_dir == expanduser(msg_dir)
        mk == makedirs(out_dir, ex)
        ld == load_seen_ids(out_dir, fl)
    IN  IF mk.err # "" THEN
          [err |-> mk.err, out_dir |-> out_dir, seen |-> seen, custom |-> custom,
           exists |-> mk.exists, scanned |-> {}, tried |-> {}]
        ELSE IF out_dir # default_dir /\ out_dir \notin custom THEN
          IF ld.err # "" THEN
            [err |-> ld.err, out_dir |-> out_dir, seen |-> seen, custom |-> custom,
             exists |-> mk.exists, scanned |-> {}, tried |-> {out_dir}]
          ELSE
            [err |-> "", out_dir |-> out_dir, seen |-> seen \cup ld.ids,
             custom |-> custom \cup {out_dir}, exists |-> mk.exists, scanned |-> {out_dir}, tried |-> {out_dir}]
        ELSE
          [err |-> "", out_dir |-> out_dir, seen |-> seen, custom |-> custom,
           exists |-> mk.exists, scanned |-> {}, tried |-> {}]
  ELSE
    [err |-> "", out_dir |-> default_dir, seen |-> seen, custom |-> custom,
     exists |-> ex, scanned |-> {}, tried |-> {}]

\* the loop of write_tweets without seen_ids.add(tid)
RECURSIVE write_loop_no_add(_, _, _, _, _)
write_loop_no_add(tweets, seen, out, count, dupes) ==
  IF tweets = <<>> THEN
    [err |-> "", seen |-> seen, out |-> out, count |-> count, dupes |-> dupes]
  ELSE
    LET tweet == Head(tweets)
        tid == tweet.id
    IN  IF tweet.k # "obj" THEN
          [err |-> "AttributeError", seen |-> seen, out |-> out, count |-> count, dupes |-> dupes]
        ELSE IF tid # NoId /\ tid \in seen /\ ~tweet.art THEN
          write_loop_no_add(Tail(tweets), seen, out, count, dupes + 1)
        ELSE
          write_loop_no_add(Tail(tweets), seen, Append(out, tweet), count + 1, dupes)

\* the loop of write_tweets; out is what f.write appended
RECURSIVE write_loop(_, _, _, _, _)
write_loop(tweets, seen, out, count, dupes) ==
  IF tweets = <<>> THEN
    [err |-> "", seen |-> seen, out |-> out, count |-> count, dupes |-> dupes]
  ELSE
    LET tweet == Head(tweets)
        tid == tweet.id
    IN  IF tweet.k # "obj" THEN    \* tweet.get on a non-object
          [err |-> "AttributeError", seen |-> seen, out |-> out, count |-> count, dupes |-> dupes]
        ELSE IF tid # NoId /\ tid \in seen /\ ~tweet.art THEN
          write_loop(Tail(tweets), seen, out, count, dupes + 1)
        ELSE
          write_loop(Tail(tweets), IF tid # NoId THEN seen \cup {tid} ELSE seen,
                     Append(out, tweet), count + 1, dupes)

\* the loop of write_tweets without the is_article exemption
RECURSIVE write_loop_no_exempt(_, _, _, _, _)
write_loop_no_exempt(tweets, seen, out, count, dupes) ==
  IF tweets = <<>> THEN
    [err |-> "", seen |-> seen, out |-> out, count |-> count, dupes |-> dupes]
  ELSE
    LET tweet == Head(tweets)
        tid == tweet.id
    IN  IF tweet.k # "obj" THEN
          [err |-> "AttributeError", seen |-> seen, out |-> out, count |-> count, dupes |-> dupes]
        ELSE IF tid # NoId /\ tid \in seen THEN
          write_loop_no_exempt(Tail(tweets), seen, out, count, dupes + 1)
        ELSE
          write_loop_no_exempt(Tail(tweets), IF tid # NoId THEN seen \cup {tid} ELSE seen,
                               Append(out, tweet), count + 1, dupes)

\* write_tweets without the is_article exemption
write_tweets_no_exempt(tweets, out_dir, seen, ex) ==
  IF out_dir \notin ex THEN
    [err |-> "FileNotFoundError", seen |-> seen, out |-> <<>>, count |-> 0, dupes |-> 0]
  ELSE write_loop_no_exempt(tweets, seen, <<>>, 0, 0)

\* write_tweets working on a copy of the set: the caller's set is left as it was
write_tweets_on_copy(tweets, out_dir, seen, ex) ==
  IF out_dir \notin ex THEN
    [err |-> "FileNotFoundError", seen |-> seen, out |-> <<>>, count |-> 0, dupes |-> 0]
  ELSE [write_loop(tweets, seen, <<>>, 0, 0) EXCEPT !.seen = seen]

\* write_tweets; open(out_file, 'a') needs the directory
write_tweets(tweets, out_dir, seen, ex) ==
  IF out_dir \notin ex THEN
    [err |-> "FileNotFoundError", seen |-> seen, out |-> <<>>, count |-> 0, dupes |-> 0]
  ELSE write_loop(tweets, seen, <<>>, 0, 0)

\* test_path: makedirs, write the marker, remove it
test_path(out_dir, ex) == makedirs(out_dir, ex)

\* write_dump: open(dump_file, 'w') truncates, then writes content
write_dump(filename, content, out_dir, ex, fl) ==
  IF out_dir \notin ex THEN [err |-> "FileNotFoundError", files |-> fl]
  ELSE [err |-> "", files |-> [fl EXCEPT ![out_dir][filename] = content]]

\* write_log: appends the lines to the daily debug file
write_log(lines, out_dir, ex, fl) ==
  IF out_dir \notin ex THEN [err |-> "FileNotFoundError", files |-> fl, logged |-> 0]
  ELSE [err |-> "", files |-> [fl EXCEPT ![out_dir][LogFile] = @ \o lines],
        logged |-> Len(lines)]

\* what one handled request leaves behind
\* (seen0: the seen-id set after the resolve; ran: write_tweets was called with it)
Outcome(rs, seen, custom, ex, fl, scanned, tried, out_dir, out, seen0, ran) ==
  [resp |-> rs, seen |-> seen, custom |-> custom, exists |-> ex, files |-> fl,
   scanned |-> scanned, tried |-> tried, out_dir |-> out_dir, out |-> out,
   seen0 |-> seen0, ran |-> ran]

(* ------------------------------ xtap_host ------------------------------ *)
\* send_message({'ok': False, 'error': str(e)})
HostErr(e) == Resp(FALSE, "error", 0, 0, e, 0)

\* _handle_message
_handle_message(msg, default_dir, seen, custom, ex, fl) ==
  IF msg.type = "GET_TOKEN" THEN
    Outcome(IF secret
              THEN [Resp(TRUE, "token", 0, 0, "", 0) EXCEPT !.token = Token, !.port = XTAP_PORT]
              ELSE HostErr("Daemon not installed (~/.xtap/secret not found)"),
            seen, custom, ex, fl, {}, {}, default_dir, <<>>, seen, FALSE)
  ELSE
    LET r == resolve_output_dir(msg.outputDir, default_dir, seen, custom, ex, fl)
    IN  IF r.err # "" THEN
          Outcome(HostErr(r.err), r.seen, r.custom, r.exists, fl, r.scanned, r.tried, r.out_dir, <<>>, r.seen, FALSE)
        ELSE IF msg.type = "TEST_PATH" THEN
          LET tp == test_path(r.out_dir, r.exists)
          IN  Outcome(IF tp.err = "" THEN Resp(TRUE, "TEST_PATH", 0, 0, "", 0) ELSE HostErr(tp.err),
                      r.seen, r.custom, tp.exists, fl, r.scanned, r.tried, r.out_dir, <<>>, r.seen, FALSE)
        ELSE IF msg.type = "DUMP" THEN
          LET wd == write_dump(msg.filename, msg.content, r.out_dir, r.exists, fl)
          IN  Outcome(IF wd.err = "" THEN Resp(TRUE, "dump", 0, 0, "", 0) ELSE HostErr(wd.err),
                      r.seen, r.custom, r.exists, wd.files, r.scanned, r.tried, r.out_dir, <<>>, r.seen, FALSE)
        ELSE IF msg.type = "LOG" THEN
          LET wl == write_log(msg.lines, r.out_dir, r.exists, fl)
          IN  Outcome(IF wl.err = "" THEN Resp(TRUE, "log", wl.logged, 0, "", 0) ELSE HostErr(wl.err),
                      r.seen, r.custom, r.exists, wl.files, r.scanned, r.tried, r.out_dir, <<>>, r.seen, FALSE)
        ELSE
          LET w == write_tweets(msg.tweets, r.out_dir, r.seen, r.exists)
          IN  Outcome(IF w.err = "" THEN Resp(TRUE, "tweets", w.count, w.dupes, "", 0)
                                    ELSE HostErr(w.err),
                      w.seen, r.custom, r.exists,
                      [fl EXCEPT ![r.out_dir][TodayFile] = @ \o w.out],
                      r.scanned, r.tried, r.out_dir, w.out, r.seen, TRUE)

(* ------------------------------ xtap_daemon ---------------------------- *)
\* _send_json({'ok': False, 'error': str(e)}, status)
HttpErr(e, status) == Resp(FALSE, "error", 0, 0, e, status)

\* _handle_tweets
_handle_tweets(body, seen, custom, ex, fl) ==
  LET r == resolve_output_dir(body.outputDir, DEFAULT_OUTPUT_DIR, seen, custom, ex, fl)
      w == write_tweets(body.tweets, r.out_dir, r.seen, r.exists)
  IN  IF r.err # "" THEN
        Outcome(HttpErr(r.err, 500), r.seen, r.custom, r.exists, fl, r.scanned, r.tried, r.out_dir, <<>>, r.seen, FALSE)
      ELSE
        Outcome(IF w.err = "" THEN Resp(TRUE, "tweets", w.count, w.dupes, "", 200)
                              ELSE HttpErr(w.err, 500),
                w.seen, r.custom, r.exists,
                [fl EXCEPT ![r.out_dir][TodayFile] = @ \o w.out],
                r.scanned, r.tried, r.out_dir, w.out, r.seen, TRUE)

\* _handle_log
_handle_log(body, seen, custom, ex, fl) ==
  LET r == resolve_output_dir(body.outputDir, DEFAULT_OUTPUT_DIR, seen, custom, ex, fl)
      wl == write_log(body.lines, r.out_dir, r.exists, fl)
  IN  IF r.err # "" THEN
        Outcome(HttpErr(r.err, 500), r.seen, r.custom, r.exists, fl, r.scanned, r.tried, r.out_dir, <<>>, r.seen, FALSE)
      ELSE
        Outcome(IF wl.err = "" THEN Resp(TRUE, "log", wl.logged, 0, "", 200)
                               ELSE HttpErr(wl.err, 500),
                r.seen, r.custom, r.exists, wl.files, r.scanned, r.tried, r.out_dir, <<>>, r.seen, FALSE)

\* _handle_dump
_handle_dump(body, seen, custom, ex, fl) ==
  LET r == resolve_output_dir(body.outputDir, DEFAULT_OUTPUT_DIR, seen, custom, ex, fl)
      wd == write_dump(body.filename, body.content, r.out_dir, r.exists, fl)
  IN  IF r.err # "" THEN
        Outcome(HttpErr(r.err, 500), r.seen, r.custom, r.exists, fl, r.scanned, r.tried, r.out_dir, <<>>, r.seen, FALSE)
      ELSE
        Outcome(IF wd.err = "" THEN Resp(TRUE, "dump", 0, 0, "", 200) ELSE HttpErr(wd.err, 500),
                r.seen, r.custom, r.exists, wd.files, r.scanned, r.tried, r.out_dir, <<>>, r.seen, FALSE)

\* _handle_test_path: no resolve_output_dir, the directory is required
_handle_test_path(body, seen, custom, ex, fl) ==
  IF body.outputDir = <<>> THEN
    Outcome(HttpErr("outputDir is required", 400), seen, custom, ex, fl, {}, {},
            DEFAULT_OUTPUT_DIR, <<>>, seen, FALSE)
  ELSE
    LET out_dir == expanduser(body.outputDir)
        tp == test_path(out_dir, ex)
    IN  Outcome(IF tp.err = "" THEN Resp(TRUE, "TEST_PATH", 0, 0, "", 200)
                                ELSE HttpErr(tp.err, 500),
                seen, custom, tp.exists, fl, {}, {}, out_dir, <<>>, seen, FALSE)

\* do_POST: the route table (paths are named by the message type they carry)
do_POST(body, seen, custom, ex, fl) ==
  IF body.type = "TWEETS" THEN _handle_tweets(body, seen, custom, ex, fl)
  ELSE IF body.type = "LOG" THEN _handle_log(body, seen, custom, ex, fl)
  ELSE IF body.type = "DUMP" THEN _handle_dump(body, seen, custom, ex, fl)
  ELSE _handle_test_path(body, seen, custom, ex, fl)

(* ------------------------------ byte strings --------------------------- *)
\* A byte string is the sequence of its runs <<byte, count>>, count > 0, no two
\* neighbouring runs of the same byte: one value for each byte string.
RECURSIVE BLen(_)
BLen(s) == IF s = <<>> THEN 0 ELSE Head(s)[2] + BLen(Tail(s))

\* a + b
BCat(a, b) ==
  IF a = <<>> THEN b
  ELSE IF b = <<>> THEN a
  ELSE IF a[Len(a)][1] = b[1][1]
    THEN SubSeq(a, 1, Len(a) - 1) \o <<<<a[Len(a)][1], a[Len(a)][2] + b[1][2]>>>> \o Tail(b)
    ELSE a \o b

\* s[:n]
RECURSIVE BTake(_, _)
BTake(s, n) ==
  IF n <= 0 \/ s = <<>> THEN <<>>
  ELSE IF Head(s)[2] <= n THEN <<Head(s)>> \o BTake(Tail(s), n - Head(s)[2])
  ELSE <<<<Head(s)[1], n>>>>

\* s[n:]
RECURSIVE BDrop(_, _)
BDrop(s, n) ==
  IF n <= 0 \/ s = <<>> THEN s
  ELSE IF Head(s)[2] <= n THEN BDrop(Tail(s), n - Head(s)[2])
  ELSE <<<<Head(s)[1], Head(s)[2] - n>>>> \o Tail(s)

\* s[i - 1], the i-th byte
RECURSIVE BAt(_, _)
BAt(s, i) == IF i <= Head(s)[2] THEN Head(s)[1] ELSE BAt(Tail(s), i - Head(s)[2])

\* n bytes b
BRun(b, n) == IF n > 0 THEN <<<<b, n>>>> ELSE <<>>

\* the bytes of '{', '}' and ' '
LBrace == 123
RBrace == 125
Space == 32

(* ------------------------------ framing -------------------------------- *)
MAX_MESSAGE_BYTES == 32 * 1024 * 1024

\* struct.pack('<I', n)
pack(n) ==
  BCat(BCat(BRun(n % 256, 1), BRun((n \div 256) % 256, 1)),
       BCat(BRun((n \div 65536) % 256, 1), BRun((n \div 16777216) % 256, 1)))

\* struct.unpack('>I', header)[0]: the length prefix read most significant
\* byte first
unpack_big_endian(header) ==
  16777216 * BAt(header, 1) + 65536 * BAt(header, 2) + 256 * BAt(header, 3) + BAt(header, 4)

\* struct.unpack('<I', header)[0]
unpack(header) ==
  BAt(header, 1) + 256 * BAt(header, 2) + 65536 * BAt(header, 3) + 16777216 * BAt(header, 4)

\* JSON values: an object without members, an object with the one member "t"
\* holding a text, and the empty array; a text is a sequence of runs
\* <<character, count>> of the characters x and e-acute (U+00E9)
EmptyObject == [kind |-> "object", has |-> FALSE, t |-> <<>>]
TextObject(t) == [kind |-> "object", has |-> TRUE, t |-> t]
EmptyArray == [kind |-> "array", has |-> FALSE, t |-> <<>>]
NoValue == [kind |-> "none", has |-> FALSE, t |-> <<>>]

\* the bytes of {"t": " and of "} as json.dumps writes them, of [] and of the
\* escape \u00e9
MemberOpen == <<<<123, 1>>, <<34, 1>>, <<116, 1>>, <<34, 1>>, <<58, 1>>, <<32, 1>>, <<34, 1>>>>
MemberClose == <<<<34, 1>>, <<125, 1>>>>
ArrayText == <<<<91, 1>>, <<93, 1>>>>
Escaped == <<<<92, 1>>, <<117, 1>>, <<48, 2>>, <<101, 1>>, <<57, 1>>>>

RECURSIVE Repeat(_, _)
Repeat(s, n) == IF n = 0 THEN <<>> ELSE BCat(s, Repeat(s, n - 1))

\* json.dumps of a text (ensure_ascii): x stays one byte, e-acute becomes the
\* six bytes \u00e9
RECURSIVE escape(_)
escape(t) ==
  IF t = <<>> THEN <<>>
  ELSE BCat(IF Head(t)[1] = "x" THEN BRun(120, Head(t)[2]) ELSE Repeat(Escaped, Head(t)[2]),
            escape(Tail(t)))

\* json.loads of the inside of a string: err when it is not a text of x and
\* \u00e9
RECURSIVE unescape(_)
unescape(b) ==
  IF b = <<>> THEN [err |-> FALSE, t |-> <<>>]
  ELSE IF Head(b)[1] = 120
    THEN LET r == unescape(Tail(b))
         IN  [err |-> r.err, t |-> BCat(<<<<"x", Head(b)[2]>>>>, r.t)]
  ELSE IF BTake(b, 6) = Escaped
    THEN LET r == unescape(BDrop(b, 6))
         IN  [err |-> r.err, t |-> BCat(<<<<"eacute", 1>>>>, r.t)]
  ELSE [err |-> TRUE, t |-> <<>>]

\* json.dumps(msg).encode('utf-8')
json_dumps(v) ==
  IF v.kind = "array" THEN ArrayText
  ELSE IF ~v.has THEN <<<<LBrace, 1>>, <<RBrace, 1>>>>
  ELSE BCat(BCat(MemberOpen, escape(v.t)), MemberClose)

\* json.loads on the texts the model's senders write: braces, brackets and
\* spaces spell the empty object or the empty array, with white space around
\* and inside; {"t": "..."} spells an object with one text; every other text
\* here is broken JSON. msg is the request main sees in a decoded object:
\* without a "type" member it is a batch of no tweets
json_loads(data) ==
  LET NotSpace(r) == r[1] # Space
      bare == SelectSeq(data, NotSpace)
      u == unescape(BTake(BDrop(data, 7), BLen(data) - 9))
      request == Msg("TWEETS", <<>>, <<>>, DumpFile, <<>>, <<>>)
  IN  IF bare = <<<<LBrace, 1>>, <<RBrace, 1>>>>
        THEN [err |-> "", value |-> EmptyObject, msg |-> request]
      ELSE IF bare = ArrayText
        THEN [err |-> "", value |-> EmptyArray, msg |-> request]
      ELSE IF /\ BLen(data) >= 9
              /\ BTake(data, 7) = MemberOpen
              /\ BDrop(data, BLen(data) - 2) = MemberClose
              /\ ~u.err
        THEN [err |-> "", value |-> TextObject(u.t), msg |-> request]
      ELSE [err |-> "JSONDecodeError", value |-> NoValue, msg |-> request]

\* the length guard of read_message that also turns away MAX_MESSAGE_BYTES itself
too_large_from_max(length) == length >= MAX_MESSAGE_BYTES

\* read_message: if length > MAX_MESSAGE_BYTES
too_large(length) == length > MAX_MESSAGE_BYTES

\* the frame send_message would build around a payload
Frame(payload) == BCat(pack(BLen(payload)), payload)

\* send_message: the bytes written to the pipe
send_message(v) == Frame(json_dumps(v))

\* '{' + n spaces + '}'
Object(n) == BCat(BCat(BRun(LBrace, 1), BRun(Space, n)), BRun(RBrace, 1))

\* what a sender may put on the stream: frames with an empty payload, an
\* object, a broken text, the array [], an object of exactly
\* MAX_MESSAGE_BYTES, and the bare header of a frame one byte larger
Frames ==
  {Frame(<<>>), Frame(Object(0)), Frame(BRun(LBrace, 1)), Frame(ArrayText),
   Frame(Object(MAX_MESSAGE_BYTES - 2)), pack(MAX_MESSAGE_BYTES + 1)}

RECURSIVE BJoin(_)
BJoin(fs) == IF fs = <<>> THEN <<>> ELSE BCat(Head(fs), BJoin(Tail(fs)))

\* the streams: up to MaxFrames frames, where stdin may close within MaxCut
\* bytes of the start or of the end
Cuts(s) == {BTake(s, n) : n \in (0..MaxCut) \cup {BLen(s) - k : k \in 0..MaxCut}}

Streams == UNION {Cuts(BJoin(fs)) : fs \in SeqsUpTo(Frames, MaxFrames)}

\* stdin: the bytes not yet read (then end of file); pc: where main is
\* ("header", "payload": inside the read_exact of read_message; "done": the loop
\* was left; "crashed"); size, buf: the arguments of the running read_exact;
\* sent: the responses written; handled: the messages given to the handler;
\* raised: the text of the EOFError read_message raised; midframe: whether
\* bytes of an unfinished frame had been read when it was raised; decoded: the
\* values read_message returned; short: whether some stream.read returned less
\* than it was asked for; orig: the value the sender framed (SpecFrame)
Io(stdin) ==
  [stdin |-> stdin, pc |-> "header", size |-> 4, buf |-> <<>>, sent |-> <<>>,
   handled |-> 0, raised |-> "", midframe |-> FALSE, decoded |-> <<>>,
   short |-> FALSE, orig |-> NoValue]

NoIo == Io(<<>>)

(* ------------------------------ download jobs -------------------------- *)
\* job ids (uuid4 strings in the daemon); NoJob is the default '' of a poll
\* without downloadId
JobIds == 1..MaxJobs
NoJob == 0

\* an entry that starts in a status of its own
NewEntry_queued == [status |-> "queued", progress |-> <<>>, path |-> None, error |-> None]

\* start_download: the entry put in _downloads. progress is <<>> for None and
\* <<p>> for the number p
NewEntry == [status |-> "downloading", progress |-> <<>>, path |-> None, error |-> None]

\* run(): before its first statement. direct: whether direct_url is non-empty
\* (FALSE once run() has read it); final_path: the local final_path, or the
\* path download_direct returned (None again once the frame is left); msg: the
\* text of the exception raised; used: the fetches the task has begun
NewTask(direct) ==
  [pc |-> "run", direct |-> direct, final_path |-> None, msg |-> None, used |-> {}]

\* an Authorization header ('' when there is none): its first seven characters
\* and the rest
Header(head, rest) == [head |-> head, rest |-> rest]

\* a request body on the wire: kind is "none" (Content-Length 0), "object",
\* "array" (JSON, but no object) or "broken" (no JSON); msg, direct and id are
\* the members of an object: those of the record store, whether directUrl is
\* non-empty, and downloadId
Raw(kind, msg, direct, id) == [kind |-> kind, msg |-> msg, direct |-> direct, id |-> id]

\* the object {}: every body.get returns its default
EmptyMsg == Msg("", <<>>, <<>>, DumpFile, <<>>, <<>>)

NoRaw == Raw("none", EmptyMsg, FALSE, NoJob)

Req(method, path, auth, raw) == [method |-> method, path |-> path, auth |-> auth, raw |-> raw]

\* the server thread between two requests. pc: "idle", or where the thread
\* stands in the request req; out: the response or the poll snapshot being put
\* together
NoRequest == Req("", "", Header("", ""), NoRaw)
NoHandler == [pc |-> "idle", req |-> NoRequest, out |-> NoResp]

\* no job was started, check_ytdlp was not called yet
\* no connection
NoConns == <<>>

NoJobs ==
  /\ _downloads = [i \in {} |-> NewEntry]
  /\ tasks = [i \in {} |-> NewTask(FALSE)]
  /\ ytdlp = [installed |-> FALSE, checked |-> FALSE, path |-> None]
  /\ handler = NoHandler
  /\ conns = NoConns

(* ------------------------------ write_tweets twice --------------------- *)
\* ids and records of the batches of SpecWrite
WriteIds == {"1", "2"}

WriteRecords == {Tweet(NoId, FALSE)} \cup {Tweet(i, a) : i \in WriteIds, a \in BOOLEAN}

WriteBatches == SeqsUpTo(WriteRecords, MaxWriteBatch)

\* seen0: the seen-id set before the first call; seen: the set now; tweets: the
\* batch; file: the lines of the directory's daily file; n: calls made;
\* out, count, dupes: what the last call appended and returned
Call(seen0, dir, tweets) ==
  [seen0 |-> seen0, seen |-> seen0, dir |-> dir, tweets |-> tweets, file |-> <<>>,
   n |-> 0, out |-> <<>>, count |-> 0, dupes |-> 0]

NoCall == Call({}, DEFAULT_OUTPUT_DIR, <<>>)

\* one call of write_tweets(tweets, dir, seen) on the existing directory
WriteCall ==
  /\ call.n < 2
  /\ LET w == write_tweets(call.tweets, call.dir, call.seen, Dirs)
     IN  call' = [call EXCEPT !.seen = w.seen, !.file = @ \o w.out, !.n = @ + 1,
                              !.out = w.out, !.count = w.count, !.dupes = w.dupes]
  /\ UNCHANGED <<procvars, io, jobvars>>

\* the process variables, unused in SpecWrite
Idle ==
  /\ transport = "none"
  /\ phase = "idle"
  /\ storage_ready = FALSE
  /\ seen_ids = {}
  /\ custom_dirs = {}
  /\ exists = Dirs
  /\ uncreatable = {}
  /\ files = [d \in Dirs |-> [f \in FileNames |-> <<>>]]
  /\ secret = FALSE
  /\ scans = [d \in Dirs |-> 0]
  /\ attempts = [d \in Dirs |-> 0]
  /\ appended = [d \in Dirs |-> [x \in Ids |-> 0]]
  /\ own = [d \in Dirs |-> {}]
  /\ foreign = {}
  /\ unloaded = {}
  /\ asked = <<>>
  /\ resp = NoResp

InitWrite ==
  /\ Idle
  /\ NoJobs
  /\ io = NoIo
  /\ call \in {Call(S, d, R) : S \in SUBSET WriteIds, d \in Dirs, R \in WriteBatches}

NextWrite == WriteCall

SpecWrite == InitWrite /\ [][NextWrite]_vars

(* ------------------------------ actions -------------------------------- *)
\* non-article records with id x among the lines out
CountIn(out, x) ==
  Cardinality({i \in 1..Len(out) : out[i].k = "obj" /\ out[i].id = x /\ ~out[i].art})

\* the ids carried by the lines s
OutIds(s) == {s[i].id : i \in {j \in 1..Len(s) : s[j].k = "obj" /\ s[j].id # NoId}}

\* the ids present in the tweets-*.jsonl files of directory d
FileIds(d, fl) == OutIds(fl[d][TodayFile]) \cup OutIds(fl[d][OldFile])

\* the lines in all copies of file f
RECURSIVE TotalLen(_, _, _)
TotalLen(fl, f, ds) ==
  IF ds = {} THEN 0
  ELSE LET d == CHOOSE x \in ds : TRUE
       IN  Len(fl[d][f]) + TotalLen(fl, f, ds \ {d})

\* the model stops the daily record files and the debug logs from growing past
\* MaxLines and MaxLog lines in all
Capped(fl) ==
  /\ (\E d \in Dirs : fl[d][TodayFile] # files[d][TodayFile])
       => TotalLen(fl, TodayFile, Dirs) <= MaxLines
  /\ (\E d \in Dirs : fl[d][LogFile] # files[d][LogFile])
       => TotalLen(fl, LogFile, Dirs) <= MaxLog

\* the record store after a handled request; boot is the set of directories
\* the caller scanned itself before the handler ran
ApplyStore(msg, o, boot) ==
  /\ Capped(o.files)
  /\ seen_ids' = o.seen
  /\ custom_dirs' = o.custom
  /\ exists' = o.exists
  /\ files' = o.files
  /\ scans' = [d \in Dirs |-> scans[d] + (IF d \in o.scanned THEN 1 ELSE 0)
                                      + (IF d \in boot THEN 1 ELSE 0)]
  /\ attempts' = [d \in Dirs |-> attempts[d] + (IF d \in o.tried THEN 1 ELSE 0)
                                            + (IF d \in boot THEN 1 ELSE 0)]
  /\ \A d \in Dirs : attempts'[d] <= MaxAttempts
  /\ appended' = [d \in Dirs |-> [x \in Ids |->
                    appended[d][x] + (IF d = o.out_dir THEN CountIn(o.out, x) ELSE 0)]]
  /\ own' = [d \in Dirs |->
               own[d] \cup (IF d \in o.scanned \cup boot THEN FileIds(d, files) ELSE {})
                      \cup (IF d = o.out_dir THEN OutIds(o.out) ELSE {})]
  /\ foreign' = IF o.ran /\ o.resp.ok
                  THEN {x \in Ids : CountIn(msg.tweets, x) > CountIn(o.out, x)}
                       \ own'[o.out_dir]
                  ELSE {}
  /\ unloaded' = IF o.ran THEN FileIds(o.out_dir, files) \ o.seen0 ELSE {}
  /\ asked' = IF o.ran THEN msg.tweets ELSE <<>>
  /\ resp' = o.resp

\* the state after a request that has nothing to do with download jobs
Apply(msg, o, boot) ==
  /\ ApplyStore(msg, o, boot)
  /\ UNCHANGED <<call, jobvars>>

\* an exception nothing catches ends the process
Crash(ex, tried) ==
  /\ phase' = "crashed"
  /\ exists' = ex
  /\ attempts' = [d \in Dirs |-> attempts[d] + (IF d \in tried THEN 1 ELSE 0)]
  /\ resp' = NoResp
  /\ foreign' = {}
  /\ unloaded' = {}
  /\ asked' = <<>>
  /\ UNCHANGED <<transport, storage_ready, seen_ids, custom_dirs, uncreatable, files,
                 secret, scans, appended, own, call, jobvars>>

\* xtap_host.main with the storage init ahead of every message, GET_TOKEN too
HostMessage_eager(msg) ==
  /\ UNCHANGED io
  /\ transport = "stream"
  /\ phase = "serving"
  /\ IF storage_ready THEN
       /\ Apply(msg, _handle_message(msg, DEFAULT_OUTPUT_DIR, seen_ids, custom_dirs,
                                     exists, files), {})
       /\ UNCHANGED <<transport, phase, storage_ready, uncreatable, secret>>
     ELSE
       LET mk == makedirs(DEFAULT_OUTPUT_DIR, exists)
           ld == load_seen_ids(DEFAULT_OUTPUT_DIR, files)
       IN  IF mk.err # "" THEN Crash(mk.exists, {})
           ELSE IF ld.err # "" THEN Crash(mk.exists, {DEFAULT_OUTPUT_DIR})
           ELSE
             /\ Apply(msg, _handle_message(msg, DEFAULT_OUTPUT_DIR, ld.ids, custom_dirs,
                                           mk.exists, files), {DEFAULT_OUTPUT_DIR})
             /\ storage_ready' = TRUE
             /\ UNCHANGED <<transport, phase, uncreatable, secret>>

\* xtap_host.main: the turn of the loop from the decoded message on
HostTurn(msg) ==
  /\ transport = "stream"
  /\ phase = "serving"
  /\ IF msg.type = "GET_TOKEN" THEN
       /\ Apply(msg, _handle_message(msg, DEFAULT_OUTPUT_DIR, seen_ids, custom_dirs,
                                     exists, files), {})
       /\ UNCHANGED <<transport, phase, storage_ready, uncreatable, secret>>
     ELSE IF storage_ready THEN
       /\ Apply(msg, _handle_message(msg, DEFAULT_OUTPUT_DIR, seen_ids, custom_dirs,
                                     exists, files), {})
       /\ UNCHANGED <<transport, phase, storage_ready, uncreatable, secret>>
     ELSE
       LET mk == makedirs(DEFAULT_OUTPUT_DIR, exists)
           ld == load_seen_ids(DEFAULT_OUTPUT_DIR, files)
       IN  IF mk.err # "" THEN Crash(mk.exists, {})
           ELSE IF ld.err # "" THEN Crash(mk.exists, {DEFAULT_OUTPUT_DIR})
           ELSE
             /\ Apply(msg, _handle_message(msg, DEFAULT_OUTPUT_DIR, ld.ids, custom_dirs,
                                           mk.exists, files), {DEFAULT_OUTPUT_DIR})
             /\ storage_ready' = TRUE
             /\ UNCHANGED <<transport, phase, uncreatable, secret>>

\* xtap_host.main: one turn of the loop on a decoded message
HostMessage(msg) == HostTurn(msg) /\ UNCHANGED io

\* xtap_host.main: read_message raises EOFError, the loop ends
HostEOF ==
  /\ transport = "stream"
  /\ phase = "serving"
  /\ phase' = "done"
  /\ resp' = NoResp
  /\ UNCHANGED <<transport, storage_ready, seen_ids, custom_dirs, exists, uncreatable,
                 files, secret, scans, attempts, appended, own, foreign, unloaded, asked,
                 call, io, jobvars>>

\* xtap_daemon.main: the start-up before serve_forever
DaemonMain ==
  /\ transport = "http"
  /\ phase = "boot"
  /\ UNCHANGED io
  /\ LET mk == makedirs(DEFAULT_OUTPUT_DIR, exists)
         ld == load_seen_ids(DEFAULT_OUTPUT_DIR, files)
     IN  IF mk.err # "" THEN Crash(mk.exists, {})
         ELSE IF ld.err # "" THEN Crash(mk.exists, {DEFAULT_OUTPUT_DIR})
         ELSE
           /\ phase' = "serving"
           /\ seen_ids' = ld.ids
           /\ exists' = mk.exists
           /\ scans' = [scans EXCEPT ![DEFAULT_OUTPUT_DIR] = @ + 1]
           /\ attempts' = [attempts EXCEPT ![DEFAULT_OUTPUT_DIR] = @ + 1]
           /\ own' = [own EXCEPT ![DEFAULT_OUTPUT_DIR] = @ \cup FileIds(DEFAULT_OUTPUT_DIR, files)]
           /\ UNCHANGED <<transport, storage_ready, custom_dirs, uncreatable, files, secret,
                          appended, foreign, unloaded, asked, resp, call, jobvars>>

\* xtap_daemon: one POST, handled to its response
DaemonPost(body) ==
  /\ transport = "http"
  /\ phase = "serving"
  /\ body.type # "GET_TOKEN"
  /\ Apply(body, do_POST(body, seen_ids, custom_dirs, exists, files), {})
  /\ UNCHANGED <<transport, phase, storage_ready, uncreatable, secret, io>>

\* a directory that exists at the start holds an older record file
InitFiles(ex) ==
  {fl \in [Dirs -> [FileNames -> InitContents \cup {<<>>}]] :
     \A d \in Dirs, f \in FileNames :
       fl[d][f] # <<>> <=> (d \in ex /\ f = OldFile)}

Init ==
  /\ transport \in {"stream", "http"}
  /\ phase = IF transport = "stream" THEN "serving" ELSE "boot"
  /\ storage_ready = FALSE
  /\ seen_ids = IF transport = "stream" THEN None ELSE {}
  /\ custom_dirs = {}
  /\ uncreatable \in {{}, {DEFAULT_OUTPUT_DIR}}
  /\ exists \in SUBSET (Dirs \ uncreatable)
  /\ files \in InitFiles(exists)
  /\ secret \in (IF transport = "stream" THEN BOOLEAN ELSE {TRUE})
  /\ scans = [d \in Dirs |-> 0]
  /\ attempts = [d \in Dirs |-> 0]
  /\ appended = [d \in Dirs |-> [x \in Ids |-> 0]]
  /\ own = [d \in Dirs |-> {}]
  /\ foreign = {}
  /\ unloaded = {}
  /\ asked = <<>>
  /\ resp = NoResp
  /\ call = NoCall
  /\ io = NoIo
  /\ NoJobs

Next ==
  \/ \E msg \in Messages : HostMessage(msg)
  \/ HostEOF
  \/ DaemonMain
  \/ \E body \in Messages : DaemonPost(body)

Spec == Init /\ [][Next]_vars

(* ------------------------------ the stream host on its stdin ----------- *)
\* the sizes of the chunk stream.read(want) may return when m bytes can be had
ChunkSizes(m) == IF m <= MaxFrag THEN 1..m ELSE {m - 1, m}

\* read_exact: chunk = stream.read(size - len(buf)); buf += chunk
ReadChunk ==
  /\ io.pc \in {"header", "payload"}
  /\ BLen(io.buf) < io.size
  /\ io.stdin # <<>>
  /\ LET want == io.size - BLen(io.buf)
         m == IF want <= BLen(io.stdin) THEN want ELSE BLen(io.stdin)
     IN  \E k \in ChunkSizes(m) :
           io' = [io EXCEPT !.buf = BCat(@, BTake(io.stdin, k)), !.stdin = BDrop(@, k),
                            !.short = @ \/ k < want]
  /\ UNCHANGED <<procvars, call, jobvars>>

\* read_exact: the chunk is empty, EOFError('unexpected end of stream'), which
\* read_message turns into EOFError('stdin closed') when it was reading the
\* header; main leaves the loop on any EOFError
ReadEOF ==
  /\ io.pc \in {"header", "payload"}
  /\ BLen(io.buf) < io.size
  /\ io.stdin = <<>>
  /\ io' = [io EXCEPT !.pc = "done",
                      !.raised = IF io.pc = "header" THEN "stdin closed"
                                 ELSE "unexpected end of stream",
                      !.midframe = (io.pc = "payload" \/ io.buf # <<>>)]
  /\ phase' = "done"
  /\ resp' = NoResp
  /\ UNCHANGED <<transport, storage_ready, seen_ids, custom_dirs, exists, uncreatable,
                 files, secret, scans, attempts, appended, own, foreign, unloaded, asked,
                 call, jobvars>>

\* read_message: the header is complete; a length over MAX_MESSAGE_BYTES raises
\* ValueError, which main answers before it reads on
HeaderRead ==
  /\ io.pc = "header"
  /\ BLen(io.buf) = io.size
  /\ Len(io.sent) < MaxSent
  /\ LET length == unpack(io.buf)
     IN  IF too_large(length) THEN
           /\ resp' = HostErr("message too large")
           /\ io' = [io EXCEPT !.size = 4, !.buf = <<>>, !.sent = Append(@, resp')]
           /\ UNCHANGED <<storevars, call, jobvars>>
         ELSE
           /\ io' = [io EXCEPT !.pc = "payload", !.size = length, !.buf = <<>>]
           /\ UNCHANGED <<procvars, call, jobvars>>

\* read_message: the payload is complete and goes through json.loads; main
\* answers a decoding error, or takes its turn on the message
PayloadRead ==
  /\ io.pc = "payload"
  /\ BLen(io.buf) = io.size
  /\ LET j == json_loads(io.buf)
     IN  IF j.err # "" THEN
           /\ resp' = HostErr(j.err)
           /\ io' = [io EXCEPT !.pc = "header", !.size = 4, !.buf = <<>>,
                               !.sent = Append(@, resp')]
           /\ UNCHANGED <<storevars, call, jobvars>>
         ELSE IF j.value.kind # "object" THEN
           \* msg.get('type') outside every try: AttributeError ends the process
           /\ Crash(exists, {})
           /\ io' = [io EXCEPT !.pc = "crashed", !.size = 4, !.buf = <<>>,
                               !.decoded = Append(@, j.value)]
         ELSE
           /\ HostTurn(j.msg)
           /\ io' = [io EXCEPT !.pc = IF phase' = "crashed" THEN "crashed" ELSE "header",
                               !.size = 4, !.buf = <<>>,
                               !.sent = IF phase' = "crashed" THEN @ ELSE Append(@, resp'),
                               !.handled = @ + 1,
                               !.decoded = Append(@, j.value)]

\* main before its first read, on a machine where nothing of xTap exists yet
HostStart ==
  /\ NoJobs
  /\ transport = "stream"
  /\ phase = "serving"
  /\ storage_ready = FALSE
  /\ seen_ids = None
  /\ custom_dirs = {}
  /\ uncreatable = {}
  /\ exists = {}
  /\ files = [d \in Dirs |-> [f \in FileNames |-> <<>>]]
  /\ secret = TRUE
  /\ scans = [d \in Dirs |-> 0]
  /\ attempts = [d \in Dirs |-> 0]
  /\ appended = [d \in Dirs |-> [x \in Ids |-> 0]]
  /\ own = [d \in Dirs |-> {}]
  /\ foreign = {}
  /\ unloaded = {}
  /\ asked = <<>>
  /\ resp = NoResp
  /\ call = NoCall

InitStream ==
  /\ HostStart
  /\ io \in {Io(s) : s \in Streams}

NextStream ==
  \/ ReadChunk
  \/ ReadEOF
  \/ HeaderRead
  \/ PayloadRead

SpecStream == InitStream /\ [][NextStream]_vars

(* ------------------------------ one frame from send_message ------------ *)
\* a text as runs
RECURSIVE Runs(_)
Runs(cs) == IF cs = <<>> THEN <<>> ELSE BCat(<<<<Head(cs), 1>>>>, Runs(Tail(cs)))

\* the objects framed: without members, with a short text of x and e-acute,
\* and with the texts whose encoding is exactly MAX_MESSAGE_BYTES long and one
\* byte longer
Objects ==
  {EmptyObject}
    \cup {TextObject(Runs(cs)) : cs \in SeqsUpTo({"x", "eacute"}, MaxText)}
    \cup {TextObject(BRun("x", MAX_MESSAGE_BYTES - 9)),
          TextObject(BRun("x", MAX_MESSAGE_BYTES - 8))}

InitFrame ==
  /\ HostStart
  /\ io \in {[Io(send_message(v)) EXCEPT !.orig = v] : v \in Objects}

SpecFrame == InitFrame /\ [][NextStream]_vars

(* ------------------------------ the daemon and its download jobs ------- *)
VERSION == "0.15.0"

\* _send_json bodies of the routes outside the record store; job is the
\* snapshot get_download_status returns
StatusResp == [ok |-> TRUE, kind |-> "status", error |-> "", status |-> 200, version |-> VERSION]
ToolResp(available) ==
  [ok |-> TRUE, kind |-> "check-ytdlp", error |-> "", status |-> 200, available |-> available]
StartResp(id) == [ok |-> TRUE, kind |-> "download", error |-> "", status |-> 200, downloadId |-> id]
PollResp(job) == [ok |-> TRUE, kind |-> "poll", error |-> "", status |-> 200, job |-> job]

\* a get_download_status that reports an id it does not hold as downloading
Unknown_as_downloading ==
  [status |-> "downloading", progress |-> <<>>, path |-> None, error |-> None]

\* get_download_status: {'status': 'unknown'}
Unknown == [status |-> "unknown", progress |-> <<>>, path |-> None, error |-> None]

\* _check_auth accepting every header that starts with 'Bearer '
_check_auth_any_bearer(auth) == auth.head = "Bearer "

\* _check_auth: auth.startswith('Bearer ') and auth[7:] == _token
_check_auth(auth) == auth.head = "Bearer " /\ auth.rest = Token

\* _read_json: {} without a body, else json.loads of it
_read_json(raw) ==
  [err |-> IF raw.kind = "broken" THEN "Invalid JSON" ELSE "",
   isobj |-> raw.kind \in {"none", "object"},
   msg |-> IF raw.kind = "object" THEN raw.msg ELSE EmptyMsg,
   direct |-> raw.kind = "object" /\ raw.direct,
   id |-> IF raw.kind = "object" THEN raw.id ELSE NoJob]

\* a check_ytdlp that finds no tool whatever is installed
check_ytdlp_never(y) ==
  [ytdlp |-> [y EXCEPT !.checked = TRUE, !.path = None], available |-> FALSE]

\* check_ytdlp: the cache after the call and the value returned
check_ytdlp(y) ==
  IF ~y.checked
    THEN [ytdlp |-> [y EXCEPT !.checked = TRUE,
                              !.path = IF y.installed THEN "yt-dlp" ELSE None],
          available |-> y.installed]
    ELSE [ytdlp |-> y, available |-> y.path # None]

\* the routes of the record store
StorePaths == {"/tweets", "/log", "/dump", "/test-path"}

\* do_POST: the record-store handler of a path
StoreHandler(path, body, seen, custom, ex, fl) ==
  IF path = "/tweets" THEN _handle_tweets(body, seen, custom, ex, fl)
  ELSE IF path = "/log" THEN _handle_log(body, seen, custom, ex, fl)
  ELSE IF path = "/dump" THEN _handle_dump(body, seen, custom, ex, fl)
  ELSE _handle_test_path(body, seen, custom, ex, fl)

\* the server thread has sent r and is free again
Answer(req, r) ==
  /\ resp' = r
  /\ handler' = NoHandler

\* an exception left the handler: socketserver logs it and closes the
\* connection, nothing was sent (NoResp)
Drop(req) ==
  /\ resp' = NoResp
  /\ handler' = NoHandler

\* do_GET and do_POST: one request, up to its response or, on the two download
\* routes, up to the first point where a job's thread may run in between
DaemonRequest(req) ==
  /\ transport = "http"
  /\ phase = "serving"
  /\ handler.pc = "idle"
  /\ UNCHANGED <<call, io, conns>>
  /\ LET body == _read_json(req.raw)
     IN  IF req.method = "GET" THEN
           /\ Answer(req, IF req.path = "/status" THEN StatusResp
                                                  ELSE HttpErr("Not found", 404))
           /\ UNCHANGED <<storevars, _downloads, tasks, ytdlp>>
         ELSE IF ~_check_auth(req.auth) THEN
           /\ Answer(req, HttpErr("Unauthorized", 401))
           /\ UNCHANGED <<storevars, _downloads, tasks, ytdlp>>
         ELSE IF body.err # "" THEN
           /\ Answer(req, HttpErr(body.err, 400))
           /\ UNCHANGED <<storevars, _downloads, tasks, ytdlp>>
         ELSE IF req.path \in StorePaths THEN
           IF ~body.isobj THEN
             \* body.get inside the handler's try
             /\ Answer(req, HttpErr("AttributeError", 500))
             /\ UNCHANGED <<storevars, _downloads, tasks, ytdlp>>
           ELSE
             /\ ApplyStore(body.msg, StoreHandler(req.path, body.msg, seen_ids, custom_dirs,
                                                  exists, files), {})
             /\ handler' = NoHandler
             /\ UNCHANGED <<transport, phase, storage_ready, uncreatable, secret,
                            _downloads, tasks, ytdlp>>
         ELSE IF req.path = "/check-ytdlp" THEN
           LET y == check_ytdlp(ytdlp)
           IN  /\ ytdlp' = y.ytdlp
               /\ Answer(req, ToolResp(y.available))
               /\ UNCHANGED <<storevars, _downloads, tasks>>
         ELSE IF req.path = "/download-video" THEN
           IF ~body.isobj THEN
             /\ Answer(req, HttpErr("AttributeError", 500))
             /\ UNCHANGED <<storevars, _downloads, tasks, ytdlp>>
           ELSE
             LET r == resolve_output_dir(body.msg.outputDir, DEFAULT_OUTPUT_DIR, seen_ids,
                                         custom_dirs, exists, files)
                 o(rs) == Outcome(rs, r.seen, r.custom, r.exists, files, r.scanned, r.tried,
                                  r.out_dir, <<>>, r.seen, FALSE)
             IN  IF r.err # "" THEN
                   /\ ApplyStore(body.msg, o(HttpErr(r.err, 500)), {})
                   /\ handler' = NoHandler
                   /\ UNCHANGED <<transport, phase, storage_ready, uncreatable, secret,
                                  _downloads, tasks, ytdlp>>
                 ELSE
                   \/ \* start_download: os.makedirs(video_dir) raises
                      /\ ApplyStore(body.msg, o(HttpErr("FileExistsError", 500)), {})
                      /\ handler' = NoHandler
                      /\ UNCHANGED <<transport, phase, storage_ready, uncreatable, secret,
                                     _downloads, tasks, ytdlp>>
                   \/ \* uuid4 gives an id no job has; the entry is made and the
                      \* thread started, the response is still to be sent
                      \E id \in JobIds \ DOMAIN _downloads :
                        /\ ApplyStore(body.msg, o(resp), {})
                        /\ _downloads' = (id :> NewEntry) @@ _downloads
                        /\ tasks' = (id :> NewTask(body.direct)) @@ tasks
                        /\ handler' = [pc |-> "respond", req |-> req, out |-> StartResp(id)]
                        /\ UNCHANGED <<transport, phase, storage_ready, uncreatable, secret,
                                       ytdlp>>
         ELSE IF req.path = "/download-status" THEN
           IF ~body.isobj THEN
             \* body.get outside every try
             /\ Drop(req)
             /\ UNCHANGED <<storevars, _downloads, tasks, ytdlp>>
           ELSE IF body.id \notin DOMAIN _downloads THEN
             /\ Answer(req, PollResp(Unknown))
             /\ UNCHANGED <<storevars, _downloads, tasks, ytdlp>>
           ELSE
             \* info['status'] is read; the other members are still to be read
             /\ handler' = [pc |-> "poll_progress", req |-> req,
                            out |-> PollResp([Unknown EXCEPT
                                                !.status = _downloads[body.id].status])]
             /\ UNCHANGED <<procvars, _downloads, tasks, ytdlp>>
         ELSE
           /\ Answer(req, HttpErr("Not found", 404))
           /\ UNCHANGED <<storevars, _downloads, tasks, ytdlp>>

\* a _handle_download_video that joins the job's thread before it answers
Respond_after_join ==
  /\ handler.pc = "respond"
  /\ tasks[handler.out.downloadId].pc = "end"
  /\ resp' = handler.out
  /\ handler' = NoHandler
  /\ UNCHANGED <<storevars, call, io, conns, _downloads, tasks, ytdlp>>

\* _handle_download_video: _send_json after start_download has returned
Respond ==
  /\ handler.pc = "respond"
  /\ resp' = handler.out
  /\ handler' = NoHandler
  /\ UNCHANGED <<storevars, call, io, conns, _downloads, tasks, ytdlp>>

\* get_download_status: info.get('progress'), info.get('path'),
\* info.get('error'), one read each, then _send_json
PollRead ==
  /\ handler.pc \in {"poll_progress", "poll_path", "poll_error"}
  /\ LET info == _downloads[handler.req.raw.id]
     IN  IF handler.pc = "poll_progress" THEN
           /\ handler' = [handler EXCEPT !.pc = "poll_path",
                                         !.out.job.progress = info.progress]
           /\ UNCHANGED resp
         ELSE IF handler.pc = "poll_path" THEN
           /\ handler' = [handler EXCEPT !.pc = "poll_error", !.out.job.path = info.path]
           /\ UNCHANGED resp
         ELSE
           /\ handler' = NoHandler
           /\ resp' = [handler.out EXCEPT !.job.error = info.error]
  /\ UNCHANGED <<storevars, call, io, conns, _downloads, tasks, ytdlp>>

\* a run() whose except clause does nothing: the thread ends
ExceptPc_pass == "end"

\* run(): where an exception raised inside the try takes the thread, the
\* except clause that records it
ExceptPc == "err_status"

\* what yt-dlp prints on a line: a number before a percent sign or none (the
\* number is whatever digits the line holds there, 250 as well as 50), a
\* destination or none
ToolLines == {[pct |-> p, dest |-> d] : p \in {<<>>, <<50>>, <<250>>}, d \in BOOLEAN}

\* one statement of run(), the thread of job id; it sends no response
TaskStep(id) ==
  /\ id \in DOMAIN tasks
  /\ resp' = NoResp
  /\ UNCHANGED <<storevars, call, io, conns, handler>>
  /\ LET t == tasks[id]
         Goto(pc) == tasks' = [tasks EXCEPT ![id].pc = pc]
     IN  \/ \* if check_ytdlp(): ... elif direct_url: ... else: ...
            /\ t.pc = "run"
            /\ LET y == check_ytdlp(ytdlp)
               IN  /\ ytdlp' = y.ytdlp
                   /\ tasks' = [tasks EXCEPT
                        ![id].pc = IF y.available THEN "popen"
                                   ELSE IF t.direct THEN "direct_begin" ELSE "err_status",
                        ![id].direct = FALSE,
                        ![id].msg = IF ~y.available /\ ~t.direct
                                      THEN "yt-dlp not found and no direct URL available"
                                      ELSE @]
            /\ UNCHANGED _downloads
         \/ \* _download_with_ytdlp: subprocess.Popen starts yt-dlp or raises
            /\ t.pc = "popen"
            /\ \E ok \in BOOLEAN :
                 tasks' = [tasks EXCEPT ![id].pc = IF ok THEN "lines" ELSE ExceptPc,
                                        ![id].msg = IF ok THEN @ ELSE "OSError",
                                        ![id].used = @ \cup {"yt-dlp"}]
            /\ UNCHANGED <<_downloads, ytdlp>>
         \/ \* for line in proc.stdout: progress and final_path
            /\ t.pc = "lines"
            /\ \E line \in ToolLines :
                 /\ _downloads' = [_downloads EXCEPT
                      ![id].progress = IF line.pct # <<>> THEN line.pct ELSE @]
                 /\ tasks' = [tasks EXCEPT
                      ![id].final_path = IF line.dest THEN "video.mp4" ELSE @]
            /\ UNCHANGED ytdlp
         \/ \* proc.stdout is at its end; proc.wait() and the return code
            /\ t.pc = "lines"
            /\ \E code \in {0, 1} :
                 tasks' = [tasks EXCEPT ![id].pc = IF code = 0 THEN "done_progress"
                                                  ELSE ExceptPc,
                                        ![id].final_path = IF code = 0 THEN @ ELSE None,
                                        ![id].msg = IF code = 0 THEN @ ELSE "yt-dlp failed"]
            /\ UNCHANGED <<_downloads, ytdlp>>
         \/ \* _downloads[download_id]['progress'] = 0
            /\ t.pc = "direct_begin"
            /\ _downloads' = [_downloads EXCEPT ![id].progress = <<0>>]
            /\ Goto("direct_fetch")
            /\ UNCHANGED ytdlp
         \/ \* download_direct returns the file path or raises
            /\ t.pc = "direct_fetch"
            /\ \E ok \in BOOLEAN :
                 tasks' = [tasks EXCEPT ![id].pc = IF ok THEN "done_progress" ELSE ExceptPc,
                                        ![id].final_path = IF ok THEN "id.mp4" ELSE @,
                                        ![id].msg = IF ok THEN @ ELSE "URLError",
                                        ![id].used = @ \cup {"direct"}]
            /\ UNCHANGED <<_downloads, ytdlp>>
         \/ \* _downloads[download_id]['progress'] = 100
            /\ t.pc = "done_progress"
            /\ _downloads' = [_downloads EXCEPT ![id].progress = <<100>>]
            /\ Goto("done_status")
            /\ UNCHANGED ytdlp
         \/ \* _downloads[download_id]['status'] = 'done'
            /\ t.pc = "done_status"
            /\ _downloads' = [_downloads EXCEPT ![id].status = "done"]
            /\ Goto("done_path")
            /\ UNCHANGED ytdlp
         \/ \* _downloads[download_id]['path'] = path
            /\ t.pc = "done_path"
            /\ _downloads' = [_downloads EXCEPT ![id].path = t.final_path]
            /\ tasks' = [tasks EXCEPT ![id].pc = "end", ![id].final_path = None]
            /\ UNCHANGED ytdlp
         \/ \* _downloads[download_id]['status'] = 'error'
            /\ t.pc = "err_status"
            /\ _downloads' = [_downloads EXCEPT ![id].status = "error"]
            /\ Goto("err_error")
            /\ UNCHANGED ytdlp
         \/ \* _downloads[download_id]['error'] = str(e), or the fixed text
            /\ t.pc = "err_error"
            /\ _downloads' = [_downloads EXCEPT ![id].error = t.msg]
            /\ Goto("end")
            /\ UNCHANGED ytdlp

\* Authorization headers: none, the secret after 'Bearer ', another word after
\* 'Bearer ', the secret after 'bearer ', and the bare secret
GoodAuth == Header("Bearer ", Token)
Auths ==
  {Header("", ""), GoodAuth, Header("Bearer ", "guess"), Header("bearer ", Token),
   Header("token-i", "n-secret-file")}

\* the record-store requests the clients send
DaemonMessages ==
  {<<"/tweets", Msg("TWEETS", <<>>, <<Tweet("1", FALSE)>>, DumpFile, <<>>, <<>>)>>,
   <<"/log", Msg("LOG", CustomDir, <<>>, DumpFile, <<>>, <<TextLine>>)>>}

Paths == StorePaths \cup {"/check-ytdlp", "/download-video", "/download-status", "/other"}

\* the well-formed requests of the clients, by the path they go to
Posts ==
  {<<pm[1], Raw("object", pm[2], FALSE, NoJob)>> : pm \in DaemonMessages}
    \cup {<<"/download-video", Raw("object", Msg("", d, <<>>, DumpFile, <<>>, <<>>), u, NoJob)>> :
            d \in {<<>>, CustomDir}, u \in BOOLEAN}
    \cup {<<"/download-status", Raw("object", EmptyMsg, FALSE, i)>> : i \in JobIds \cup {NoJob}}
    \cup {<<"/check-ytdlp", NoRaw>>}

\* those sent under every header
Probes ==
  {<<"/tweets", Raw("object", Msg("TWEETS", <<>>, <<Tweet("1", FALSE)>>, DumpFile, <<>>, <<>>),
                    FALSE, NoJob)>>,
   <<"/download-video", Raw("object", EmptyMsg, TRUE, NoJob)>>,
   <<"/download-status", Raw("object", EmptyMsg, FALSE, 1)>>}

\* the requests: the well-formed ones with the right header, some of them with
\* every other header, every path with a body that is no object, with the
\* right header and with none, and the two GETs
Requests ==
  {Req("POST", pr[1], GoodAuth, pr[2]) : pr \in Posts}
    \cup {Req("POST", pr[1], a, pr[2]) : pr \in Probes, a \in Auths}
    \cup {Req("POST", p, a, Raw(k, EmptyMsg, FALSE, NoJob)) :
            p \in Paths, a \in {GoodAuth, Header("", "")}, k \in {"none", "array", "broken"}}
    \cup {Req("GET", p, Header("", ""), NoRaw) : p \in {"/status", "/other"}}

\* main() is about to run on a machine where nothing of xTap exists but the
\* secret; yt-dlp is on PATH or not
InitDaemon ==
  /\ transport = "http"
  /\ phase = "boot"
  /\ storage_ready = FALSE
  /\ seen_ids = {}
  /\ custom_dirs = {}
  /\ uncreatable = {}
  /\ exists = {}
  /\ files = [d \in Dirs |-> [f \in FileNames |-> <<>>]]
  /\ secret = TRUE
  /\ scans = [d \in Dirs |-> 0]
  /\ attempts = [d \in Dirs |-> 0]
  /\ appended = [d \in Dirs |-> [x \in Ids |-> 0]]
  /\ own = [d \in Dirs |-> {}]
  /\ foreign = {}
  /\ unloaded = {}
  /\ asked = <<>>
  /\ resp = NoResp
  /\ call = NoCall
  /\ io = NoIo
  /\ _downloads = [i \in {} |-> NewEntry]
  /\ tasks = [i \in {} |-> NewTask(FALSE)]
  /\ ytdlp \in {[installed |-> b, checked |-> FALSE, path |-> None] : b \in BOOLEAN}
  /\ handler = NoHandler
  /\ conns = NoConns

\* the model lets no more than MaxStarted jobs start
JobsCapped == Cardinality(DOMAIN _downloads') <= MaxStarted

NextDaemon ==
  \/ DaemonMain
  \/ \E req \in Requests : DaemonRequest(req) /\ JobsCapped
  \/ Respond
  \/ PollRead
  \/ \E id \in JobIds : TaskStep(id)

SpecDaemon == InitDaemon /\ [][NextDaemon]_vars

\* the thread of job id takes a step that moves it on: every statement but the
\* reading of one more line of a tool that is still printing
Advance(id) == TaskStep(id) /\ tasks'[id].pc # tasks[id].pc

\* SpecDaemon with every job's thread scheduled fairly and every fetch
\* terminating: a thread that can move on does so
SpecDaemonFair == SpecDaemon /\ \A id \in JobIds : WF_vars(Advance(id))

(* ------------------------------ the daemon with yt-dlp, two jobs ------- *)
\* the requests of the clients of a daemon that has yt-dlp: record writes,
\* start-downloads and polls
ToolRequests ==
  {Req("POST", "/tweets", GoodAuth,
       Raw("object", Msg("TWEETS", <<>>, <<Tweet("1", FALSE)>>, DumpFile, <<>>, <<>>),
           FALSE, NoJob)),
   Req("POST", "/download-video", GoodAuth, Raw("object", EmptyMsg, FALSE, NoJob))}
    \cup {Req("POST", "/download-status", GoodAuth, Raw("object", EmptyMsg, FALSE, i)) :
            i \in JobIds}

InitTool ==
  /\ InitDaemon
  /\ ytdlp.installed

NextTool ==
  \/ DaemonMain
  \/ \E req \in ToolRequests : DaemonRequest(req)
  \/ Respond
  \/ PollRead
  \/ \E id \in JobIds : TaskStep(id)

SpecTool == InitTool /\ [][NextTool]_vars

(* ------------------------------ the daemon's server loop --------------- *)
ConnIds == 1..MaxConns

\* the bodies of the queued requests: record writes to the default and to a
\* requested directory, one with a record that is no object, and a log write
\* to the requested directory
ServeBodies ==
  {Msg("TWEETS", d, <<Tweet("1", FALSE)>>, DumpFile, <<>>, <<>>) : d \in {<<>>, CustomDir}}
    \cup {Msg("TWEETS", <<>>, <<Tweet("1", FALSE), NonObjLine>>, DumpFile, <<>>, <<>>)}
    \cup {Msg("LOG", CustomDir, <<>>, DumpFile, <<>>, <<TextLine>>)}

\* a connection: its request and the locals of the handler that serves it
\* (loaded: what load_seen_ids returned; i: the index of the loop of
\* write_tweets; out: the response to send)
Conn(body) ==
  [pc |-> "queued", body |-> body, out_dir |-> DEFAULT_OUTPUT_DIR, loaded |-> {},
   i |-> 1, count |-> 0, dupes |-> 0, out |-> NoResp]

\* socketserver.ThreadingMixIn: process_request hands the connection to a new
\* thread and the loop goes on accepting
Busy_threading == FALSE

\* HTTPServer: serve_forever calls process_request, which runs the handler to
\* its end in the loop's own thread; until then nothing is accepted
Busy == \E c \in DOMAIN conns : conns[c].pc \notin {"queued", "closed"}

\* serve_forever takes a queued connection; do_POST finds the token and a JSON
\* object and calls the handler of the path
Accept(c) ==
  /\ transport = "http"
  /\ phase = "serving"
  /\ conns[c].pc = "queued"
  /\ ~Busy
  /\ conns' = [conns EXCEPT ![c].pc = "makedirs"]
  /\ UNCHANGED <<procvars, call, io, _downloads, tasks, ytdlp, handler>>

\* one statement of the handler of connection c: resolve_output_dir, then
\* write_tweets or write_log, then _send_json
HandlerStep(c) ==
  /\ transport = "http"
  /\ phase = "serving"
  /\ LET h == conns[c]
         Goto(pc) == conns' = [conns EXCEPT ![c].pc = pc]
         Fail(e) == conns' = [conns EXCEPT ![c].pc = "send", ![c].out = HttpErr(e, 500)]
     IN  \/ \* if msg_dir: os.makedirs(expanduser(msg_dir)); else: out_dir = default_dir
            /\ h.pc = "makedirs"
            /\ IF h.body.outputDir = <<>> THEN
                 /\ conns' = [conns EXCEPT ![c].pc = "body", ![c].out_dir = DEFAULT_OUTPUT_DIR]
                 /\ UNCHANGED exists
               ELSE
                 LET mk == makedirs(expanduser(h.body.outputDir), exists)
                 IN  /\ exists' = mk.exists
                     /\ IF mk.err # "" THEN Fail(mk.err)
                        ELSE conns' = [conns EXCEPT ![c].pc = "registry",
                                                    ![c].out_dir = expanduser(h.body.outputDir)]
            /\ UNCHANGED <<seen_ids, custom_dirs, files, scans, attempts, appended, resp>>
         \/ \* if out_dir != default_dir and out_dir not in custom_dirs
            /\ h.pc = "registry"
            /\ Goto(IF h.out_dir # DEFAULT_OUTPUT_DIR /\ h.out_dir \notin custom_dirs
                      THEN "load" ELSE "body")
            /\ UNCHANGED <<seen_ids, custom_dirs, exists, files, scans, attempts, appended, resp>>
         \/ \* load_seen_ids(out_dir)
            /\ h.pc = "load"
            /\ LET ld == load_seen_ids(h.out_dir, files)
               IN  /\ attempts' = [attempts EXCEPT ![h.out_dir] = @ + 1]
                   /\ IF ld.err # "" THEN Fail(ld.err) /\ UNCHANGED scans
                      ELSE /\ conns' = [conns EXCEPT ![c].pc = "update", ![c].loaded = ld.ids]
                           /\ scans' = [scans EXCEPT ![h.out_dir] = @ + 1]
            /\ UNCHANGED <<seen_ids, custom_dirs, exists, files, appended, resp>>
         \/ \* seen_ids.update(...)
            /\ h.pc = "update"
            /\ seen_ids' = seen_ids \cup h.loaded
            /\ conns' = [conns EXCEPT ![c].pc = "add_dir", ![c].loaded = {}]
            /\ UNCHANGED <<custom_dirs, exists, files, scans, attempts, appended, resp>>
         \/ \* custom_dirs.add(out_dir)
            /\ h.pc = "add_dir"
            /\ custom_dirs' = custom_dirs \cup {h.out_dir}
            /\ Goto("body")
            /\ UNCHANGED <<seen_ids, exists, files, scans, attempts, appended, resp>>
         \/ \* write_log, or write_tweets up to its loop: open(out_file, 'a')
            /\ h.pc = "body"
            /\ IF h.out_dir \notin exists THEN
                 Fail("FileNotFoundError") /\ UNCHANGED files
               ELSE IF h.body.type = "LOG" THEN
                 LET wl == write_log(h.body.lines, h.out_dir, exists, files)
                 IN  /\ files' = wl.files
                     /\ conns' = [conns EXCEPT ![c].pc = "send",
                                               ![c].out = Resp(TRUE, "log", wl.logged, 0, "", 200)]
               ELSE
                 /\ Goto("check")
                 /\ UNCHANGED files
            /\ UNCHANGED <<seen_ids, custom_dirs, exists, scans, attempts, appended, resp>>
         \/ \* for tweet in tweets: if tid and tid in seen_ids and not is_article
            /\ h.pc = "check"
            /\ IF h.i > Len(h.body.tweets) THEN
                 conns' = [conns EXCEPT ![c].pc = "send", ![c].i = 1,
                                        ![c].out = Resp(TRUE, "tweets", h.count, h.dupes, "", 200)]
               ELSE
                 LET tweet == h.body.tweets[h.i]
                 IN  IF tweet.k # "obj" THEN Fail("AttributeError")    \* tweet.get
                     ELSE IF tweet.id # NoId /\ tweet.id \in seen_ids /\ ~tweet.art
                       THEN conns' = [conns EXCEPT ![c].dupes = @ + 1, ![c].i = @ + 1]
                       ELSE Goto(IF tweet.id # NoId THEN "add" ELSE "write")
            /\ UNCHANGED <<seen_ids, custom_dirs, exists, files, scans, attempts, appended, resp>>
         \/ \* seen_ids.add(tid)
            /\ h.pc = "add"
            /\ seen_ids' = seen_ids \cup {h.body.tweets[h.i].id}
            /\ Goto("write")
            /\ UNCHANGED <<custom_dirs, exists, files, scans, attempts, appended, resp>>
         \/ \* f.write(json.dumps(tweet) + '\n'); count += 1
            /\ h.pc = "write"
            /\ LET tweet == h.body.tweets[h.i]
               IN  /\ files' = [files EXCEPT ![h.out_dir][TodayFile] = Append(@, tweet)]
                   /\ appended' = [appended EXCEPT ![h.out_dir] =
                        [x \in Ids |-> @[x] + CountIn(<<tweet>>, x)]]
            /\ conns' = [conns EXCEPT ![c].pc = "check", ![c].count = @ + 1, ![c].i = @ + 1]
            /\ UNCHANGED <<seen_ids, custom_dirs, exists, scans, attempts, resp>>
         \/ \* f.write raises OSError (the disk is full, the file is gone)
            /\ h.pc = "write"
            /\ Fail("OSError")
            /\ UNCHANGED <<seen_ids, custom_dirs, exists, files, scans, attempts, appended, resp>>
         \/ \* _send_json; the handler returns and the connection is closed
            /\ h.pc = "send"
            /\ resp' = h.out
            /\ Goto("closed")
            /\ UNCHANGED <<seen_ids, custom_dirs, exists, files, scans, attempts, appended>>
  /\ UNCHANGED <<transport, phase, storage_ready, uncreatable, secret, own, foreign,
                 unloaded, asked, call, io, _downloads, tasks, ytdlp, handler>>

\* main() is about to run; MaxConns clients have their requests under way
InitServe ==
  /\ transport = "http"
  /\ phase = "boot"
  /\ storage_ready = FALSE
  /\ seen_ids = {}
  /\ custom_dirs = {}
  /\ uncreatable \in {{}, {CustomDir}}
  /\ exists \in SUBSET (Dirs \ uncreatable)
  /\ files \in InitFiles(exists)
  /\ secret = TRUE
  /\ scans = [d \in Dirs |-> 0]
  /\ attempts = [d \in Dirs |-> 0]
  /\ appended = [d \in Dirs |-> [x \in Ids |-> 0]]
  /\ own = [d \in Dirs |-> {}]
  /\ foreign = {}
  /\ unloaded = {}
  /\ asked = <<>>
  /\ resp = NoResp
  /\ call = NoCall
  /\ io = NoIo
  /\ _downloads = [i \in {} |-> NewEntry]
  /\ tasks = [i \in {} |-> NewTask(FALSE)]
  /\ ytdlp = [installed |-> FALSE, checked |-> FALSE, path |-> None]
  /\ handler = NoHandler
  /\ conns \in [ConnIds -> {Conn(b) : b \in ServeBodies}]

NextServe ==
  \/ DaemonMain
  \/ \E c \in ConnIds : Accept(c)
  \/ \E c \in ConnIds : HandlerStep(c)

SpecServe == InitServe /\ [][NextServe]_vars

(* ------------------------------ properties: the record store ----------- *)
\* the seen-id set as a set (the host holds None until its storage init)
Seen == IF transport = "http" \/ storage_ready THEN seen_ids ELSE {}

\* the ids a load_seen_ids pass completed in this step has put in the set
ScannedNow == UNION {FileIds(e, files) : e \in {d \in Dirs : scans'[d] > scans[d]}}

RECURSIVE SumOver(_, _)
SumOver(f, S) ==
  IF S = {} THEN 0
  ELSE LET x == CHOOSE y \in S : TRUE IN f[x] + SumOver(f, S \ {x})

\* non-article records with id x this step appended, in all directories
AppendedNow(x) == SumOver([d \in Dirs |-> appended'[d][x] - appended[d][x]], Dirs)

\* C1, one step: a non-article record with id x is appended at most once, and
\* not at all when x was in the seen-id set before the write (from an earlier
\* write or from a scan); every occurrence not appended is counted in dupes
C1_Step ==
  /\ \A x \in Ids :
       /\ AppendedNow(x) \in {0, 1}
       /\ x \in Seen \cup ScannedNow => AppendedNow(x) = 0
  /\ resp'.kind = "tweets" =>
       /\ resp'.dupes = SumOver([x \in Ids |-> CountIn(asked', x) - AppendedNow(x)], Ids)
       /\ resp'.count = Len(asked') - resp'.dupes

\* C1: in one process a record with a non-empty id that is not an article is
\* appended to the record files of a directory at most once; once its id is in
\* the seen-id set, every later occurrence is counted as a duplicate and not
\* written
C1_AtMostOnce ==
  /\ [](\A d \in Dirs, x \in Ids : appended[d][x] <= 1)
  /\ [][C1_Step]_vars

\* C1 witness: the id was written once by an earlier request, and a later
\* request carrying it twice got both counted as duplicates
C1_Witness ==
  /\ appended[DEFAULT_OUTPUT_DIR]["1"] = 1
  /\ asked = <<Tweet("1", FALSE), Tweet("1", FALSE)>>
  /\ resp.kind = "tweets" /\ resp.count = 0 /\ resp.dupes = 2

\* C2: whenever write_tweets deduplicates against the seen-id set for a resolved
\* directory D, every id present in D's tweets-*.jsonl files is already in
\* that set
C2_LoadedBeforeDedup == unloaded = {}

\* the requested directories other than the default
Requested == Dirs \ {DEFAULT_OUTPUT_DIR}

\* C3 as stated: a requested directory different from the default is scanned
\* exactly once per process; requests after the first that resolves to it
\* start no scan
C3_ScannedOnce == \A d \in Requested : attempts[d] <= 1

\* C3, one step: a registered directory is not scanned again; a scan of an
\* unregistered one registers it when it completes, and leaves it unregistered
\* (to be scanned again by the next request) when load_seen_ids raises
C3_Step ==
  \A d \in Requested :
    /\ d \in custom_dirs => attempts'[d] = attempts[d] /\ d \in custom_dirs'
    /\ attempts'[d] # attempts[d] =>
         /\ attempts'[d] = attempts[d] + 1
         /\ IF load_seen_ids(d, files).err = ""
              THEN d \in custom_dirs' /\ scans'[d] = 1
                   /\ load_seen_ids(d, files).ids \subseteq seen_ids'
              ELSE d \notin custom_dirs' /\ scans'[d] = 0
    /\ d \notin custom_dirs /\ d \in custom_dirs' => attempts'[d] = attempts[d] + 1

\* C3 (amended): a requested directory different from the default is scanned
\* into the seen-id set by the first request through resolve_output_dir whose
\* scan completes, which registers it; from then on no request scans it
\* again, so it has exactly one completed scan. A scan that raises registers
\* nothing and the next request scans again.
C3_ScannedOnceRegistered ==
  /\ [](\A d \in Requested : scans[d] = IF d \in custom_dirs THEN 1 ELSE 0)
  /\ [](DEFAULT_OUTPUT_DIR \notin custom_dirs)
  /\ [][C3_Step]_vars

\* C3 witness: two requests (a log and a write) resolved to the registered
\* requested directory, which was scanned once
C3_Witness ==
  /\ CustomDir \in custom_dirs
  /\ files[CustomDir][LogFile] # <<>>
  /\ files[CustomDir][TodayFile] # <<>>
  /\ attempts[CustomDir] = 1 /\ scans[CustomDir] = 1

\* C4: a write to directory B counts a record as a duplicate only if its id is
\* in B's own seen-id set (ids found in B's files or written to B earlier)
C4_DedupPerDirectory == foreign = {}

\* this step answered a GET_TOKEN request
TokenStep ==
  \/ resp'.kind = "token"
  \/ resp'.error = "Daemon not installed (~/.xtap/secret not found)"

\* C8, one step of the stream host: a GET_TOKEN request creates and scans
\* nothing and leaves the storage state as it was, and with the secret file in
\* place it is answered with the token and the port; the first request of
\* another type runs the storage init (or dies in it), later ones do not
C8_Step ==
  transport = "stream" =>
    /\ TokenStep =>
         /\ UNCHANGED <<storage_ready, seen_ids, custom_dirs, exists, files, scans, attempts>>
         /\ phase' = "serving"
         /\ secret => resp'.ok /\ resp'.token = Token /\ resp'.port = XTAP_PORT
    /\ ~TokenStep /\ phase' = "serving" => storage_ready'
    /\ ~storage_ready /\ storage_ready' =>
         /\ ~TokenStep
         /\ DEFAULT_OUTPUT_DIR \in exists'
         /\ attempts'[DEFAULT_OUTPUT_DIR] = 1 /\ scans'[DEFAULT_OUTPUT_DIR] = 1
    /\ storage_ready =>
         /\ storage_ready'
         /\ attempts'[DEFAULT_OUTPUT_DIR] = attempts[DEFAULT_OUTPUT_DIR]

\* C8: on the stream transport GET_TOKEN never triggers the storage bootstrap
\* and is answered with token and port (the secret file being readable) even
\* when the default directory cannot be created; while only GET_TOKEN requests
\* have come, storage is uninitialised; the bootstrap runs at most once, on
\* the first request of another type
C8_TokenWithoutStorage ==
  /\ [](transport = "stream" /\ ~storage_ready /\ phase # "crashed" =>
          /\ \A d \in Dirs : attempts[d] = 0 /\ scans[d] = 0
          /\ custom_dirs = {}
          /\ seen_ids = None)
  /\ [](transport = "stream" => attempts[DEFAULT_OUTPUT_DIR] <= 1)
  /\ [][C8_Step]_vars

\* C8 witness: the default directory is missing and cannot be created, and
\* GET_TOKEN was answered with the token and port, storage still uninitialised
C8_Witness ==
  /\ transport = "stream" /\ phase = "serving"
  /\ DEFAULT_OUTPUT_DIR \in uncreatable /\ DEFAULT_OUTPUT_DIR \notin exists
  /\ resp.ok /\ resp.kind = "token" /\ resp.token = Token /\ resp.port = XTAP_PORT
  /\ ~storage_ready /\ seen_ids = None

\* a is b or b cut short
IsPrefix(a, b) == Len(a) <= Len(b) /\ SubSeq(b, 1, Len(a)) = a

\* C7: across every sequence of requests each record file only grows by
\* appended lines; a line once written is never rewritten, truncated or deleted
C7_AppendOnly ==
  [][\A d \in Dirs : /\ IsPrefix(files[d][TodayFile], files'[d][TodayFile])
                     /\ IsPrefix(files[d][OldFile], files'[d][OldFile])]_vars

(* ------------------------------ properties: write_tweets twice --------- *)
\* the non-empty ids carried by the records of R
IdsOf(R) == {R[i].id : i \in 1..Len(R)} \ {NoId}

\* the number of records of R without id
IdLess(R) == Cardinality({i \in 1..Len(R) : R[i].id = NoId})

\* the records of R that no seen-id set can hold back: those without id and
\* those marked is_article
Exempt(R) == LET Test(r) == r.id = NoId \/ r.art IN SelectSeq(R, Test)

\* the first record of R carrying id x
FirstWith(R, x) == R[CHOOSE i \in 1..Len(R) : R[i].id = x /\ \A j \in 1..(i - 1) : R[j].id # x]

\* the number of positions of R holding record r
CountOf(R, r) == Cardinality({i \in 1..Len(R) : R[i] = r})

\* C5 as stated: after two calls with the same R and the same seen-id set the
\* second call has written nothing, and the daily file holds as many lines as
\* R has distinct ids plus the id-less records of both calls
C5_SecondCallWritesNothing ==
  call.n = 2 =>
    /\ call.out = <<>> /\ call.count = 0
    /\ Len(call.file) = Cardinality(IdsOf(call.tweets)) + 2 * IdLess(call.tweets)

\* C5 (amended): after two calls with the same R and the same seen-id set S the
\* second call has written exactly the id-less and the is_article records of
\* R and counted every other record as a duplicate; the daily file holds one
\* line for each id of R that is not in S and whose first record in R is not
\* an article, plus two lines for each id-less or is_article record of R
C5_SecondCallWritesExempt ==
  call.n = 2 =>
    /\ call.out = Exempt(call.tweets)
    /\ call.count = Len(call.out)
    /\ call.dupes = Len(call.tweets) - Len(call.out)
    /\ Len(call.file) =
         Cardinality({x \in IdsOf(call.tweets) \ call.seen0 : ~FirstWith(call.tweets, x).art})
         + 2 * Len(Exempt(call.tweets))

\* C5 witness: two calls on a batch with a fresh id, an id-less record and an
\* article; five lines in the file, two of them from the second call
C5_Witness ==
  /\ call.n = 2
  /\ call.seen0 = {}
  /\ call.tweets = <<Tweet("1", FALSE), Tweet(NoId, FALSE), Tweet("2", TRUE)>>
  /\ Len(call.file) = 5 /\ call.count = 2 /\ call.dupes = 1

\* C6: a record marked is_article is always appended and counted as written,
\* never as a duplicate, whether or not its id is in the seen-id set, and
\* after the call its id is in the set
C6_ArticleAlwaysWritten ==
  call.n >= 1 =>
    /\ \A r \in WriteRecords : r.art => CountOf(call.out, r) = CountOf(call.tweets, r)
    /\ call.count = Len(call.out)
    /\ call.dupes = Len(call.tweets) - Len(call.out)
    /\ call.dupes <= Cardinality({i \in 1..Len(call.tweets) :
                                   call.tweets[i].id # NoId /\ ~call.tweets[i].art})
    /\ \A i \in 1..Len(call.tweets) : call.tweets[i].art => call.tweets[i].id \in call.seen

\* C6 witness: an article whose id was in the set before the call was written
\* and counted
C6_Witness ==
  /\ call.n = 1
  /\ "1" \in call.seen0
  /\ call.tweets = <<Tweet("1", TRUE), Tweet("1", FALSE)>>
  /\ call.out = <<Tweet("1", TRUE)>>
  /\ call.count = 1 /\ call.dupes = 1

(* ------------------------------ properties: the stream host ------------ *)
\* C9: end of stream with zero bytes read at a frame boundary ends the loop as
\* a clean shutdown ('stdin closed'), whereas end of stream in the middle of a
\* frame (after part of a header, or after part of the payload) is signalled
\* as an error distinguishable from the clean shutdown
C9_EofMidFrameIsError ==
  io.pc = "done" =>
    /\ ~io.midframe => io.raised = "stdin closed"
    /\ io.midframe => io.raised # "stdin closed"

\* C10, one step: when the header is complete, a declared length over
\* 33554432 is answered with an error while no further byte is read, nothing
\* is handled and the host keeps serving; a length up to 33554432 makes the
\* host read that many payload bytes. Only complete payloads within the
\* ceiling are handled.
C10_Step ==
  /\ io.pc = "header" /\ BLen(io.buf) = 4 =>
       IF unpack(io.buf) > 33554432 THEN
         /\ io'.stdin = io.stdin
         /\ io'.pc = "header" /\ io'.buf = <<>> /\ io'.size = 4
         /\ io'.sent = Append(io.sent, resp') /\ ~resp'.ok /\ resp'.kind = "error"
         /\ io'.handled = io.handled
         /\ phase' = "serving"
         /\ UNCHANGED <<storage_ready, seen_ids, custom_dirs, exists, files, scans>>
       ELSE
         /\ io'.pc = "payload" /\ io'.size = unpack(io.buf) /\ io'.buf = <<>>
         /\ io'.stdin = io.stdin
         /\ io'.sent = io.sent
  /\ io'.handled # io.handled =>
       io.pc = "payload" /\ BLen(io.buf) = io.size /\ io.size <= 33554432

\* C10: a frame whose declared length exceeds 32 MiB is rejected before any
\* payload byte is read, is answered with an error response, is not handled
\* and does not end the host; a declared length of at most 32 MiB is accepted
C10_OversizeRejected ==
  /\ [](io.pc = "payload" => io.size <= 33554432)
  /\ [][C10_Step]_vars

\* C10 witness: the header announcing 33554433 bytes was answered with an
\* error, and the frame of exactly 33554432 bytes behind it was then read and
\* handled
C10_Witness ==
  /\ Len(io.sent) = 2
  /\ io.sent[1].error = "message too large"
  /\ io.sent[2].ok
  /\ io.handled = 1
  /\ io.pc = "header" /\ io.stdin = <<>>
  /\ attempts[DEFAULT_OUTPUT_DIR] = 1

(* ------------------------------ properties: framing round trip --------- *)
\* read_message has returned nothing but the framed object, no read was
\* answered with an error, and once the stream is exhausted the object has
\* been returned
RoundTrip ==
  /\ \A i \in 1..Len(io.sent) : io.sent[i].ok
  /\ io.decoded \in {<<>>, <<io.orig>>}
  /\ io.pc \in {"done", "crashed"} => io.decoded = <<io.orig>>

\* C11 as stated: for every JSON object, also one with non-ASCII text, the
\* frame send_message builds is read back by read_message as the same object,
\* however the pipe fragments it
C11_RoundTripEveryObject == RoundTrip

\* C11 amended: the same, for every JSON object whose encoding is at most
\* MAX_MESSAGE_BYTES long
C11_RoundTripWithinCeiling ==
  BLen(json_dumps(io.orig)) <= MAX_MESSAGE_BYTES => RoundTrip

\* an object with non-ASCII text came back from a stream whose reads were
\* fragmented, and the stream then ended cleanly
C11_Witness ==
  /\ io.pc = "done"
  /\ io.short
  /\ io.orig.has
  /\ \E i \in 1..Len(io.orig.t) : io.orig.t[i][1] = "eacute"
  /\ io.decoded = <<io.orig>>
  /\ io.raised = "stdin closed"

\* C14: on the stream transport every complete frame within the ceiling,
\* whatever its content, is handled and answered with exactly one response
\* before the next frame is read, and the host keeps running; only the end of
\* the stream ends the loop
C14_EveryFrameAnswered ==
  /\ [](phase # "crashed" /\ io.pc # "crashed")
  /\ [][/\ io.pc = "payload" /\ BLen(io.buf) = io.size =>
            /\ io'.sent = Append(io.sent, resp')
            /\ io'.pc = "header" /\ io'.buf = <<>> /\ io'.stdin = io.stdin
            /\ phase' = "serving"
        /\ phase' = "done" /\ phase # "done" => io.stdin = <<>> /\ BLen(io.buf) < io.size]_vars

\* C15: on both transports a request that hits an I/O failure, the failure of
\* the deferred bootstrap of the default directory on the stream transport
\* included, is answered with {ok: false, error} and the process goes on
\* serving: no request ends a serving process, and each is answered
C15_IoFailureAnswered ==
  [][phase = "serving" /\ phase' # "done" =>
       /\ phase' = "serving"
       /\ resp'.kind # "none"
       /\ ~resp'.ok => resp'.error # ""]_vars

(* ------------------------------ properties: the daemon ----------------- *)
\* the POST requests whose Authorization header is not 'Bearer ' followed by
\* the secret
Unauthorized == {req \in Requests : req.method = "POST" /\ req.auth # GoodAuth}

\* C12, one step of the daemon: a POST without the right header gets 401
\* Unauthorized and changes nothing, whatever its path and body; GET /status
\* is answered with the version, with no header at all
C12_Step ==
  /\ \A req \in Unauthorized :
       DaemonRequest(req) =>
         /\ resp' = [ok |-> FALSE, kind |-> "error", count |-> 0, dupes |-> 0,
                     error |-> "Unauthorized", token |-> "", port |-> 0, status |-> 401]
         /\ handler'.pc = "idle"
         /\ UNCHANGED <<seen_ids, custom_dirs, exists, files, scans, attempts,
                        _downloads, tasks, ytdlp>>
  /\ DaemonRequest(Req("GET", "/status", Header("", ""), NoRaw)) =>
       /\ resp'.ok /\ resp'.status = 200 /\ resp'.version = "0.15.0"
       /\ UNCHANGED <<seen_ids, custom_dirs, exists, files, scans, attempts,
                      _downloads, tasks, ytdlp>>

\* C12: every POST, to any path, whose Authorization header is missing or is
\* not exactly 'Bearer <secret>' is answered with 401 {ok: false, error:
\* "Unauthorized"}; its body is not read (a broken body does not turn the
\* answer into 400) and the seen-id set, the registry, the files and the job
\* map stay as they were; GET /status is answered without a token
C12_UnauthorizedChangesNothing == [][C12_Step]_vars

\* C12 witness: a daemon that holds a seen id, a registered directory, record
\* lines and a job has just answered 401
C12_Witness ==
  /\ resp.status = 401
  /\ seen_ids # {}
  /\ custom_dirs # {}
  /\ files[DEFAULT_OUTPUT_DIR][TodayFile] # <<>>
  /\ DOMAIN _downloads # {}

\* authenticated POSTs to a known route with a JSON body that is no object,
\* on the routes whose handler reads the body
Raising ==
  {req \in Requests :
     /\ req.method = "POST" /\ req.auth = GoodAuth /\ req.raw.kind = "array"
     /\ req.path \in StorePaths \cup {"/download-video", "/download-status"}}

\* C13: on the HTTP transport every authenticated POST to a known route whose
\* handling raises (here: the body is JSON but no object) is answered with a
\* 500 response carrying the exception message, and the daemon goes on serving
C13_RaisingRequestGets500 ==
  [][\A req \in Raising :
       DaemonRequest(req) =>
         /\ resp'.status = 500 /\ ~resp'.ok /\ resp'.error # ""
         /\ phase' = "serving" /\ handler'.pc = "idle"]_vars

(* ------------------------------ properties: download jobs -------------- *)
\* C16, one step: a job enters the map as downloading, its status changes only
\* from downloading, and only to done or error
C16_Step ==
  \A id \in DOMAIN _downloads' :
    IF id \in DOMAIN _downloads
      THEN _downloads'[id].status # _downloads[id].status =>
             /\ _downloads[id].status = "downloading"
             /\ _downloads'[id].status \in {"done", "error"}
      ELSE _downloads'[id].status = "downloading"

\* C16: a job's status starts as downloading and changes at most once, to
\* done or to error; done and error are final; a stored status is never
\* anything but downloading, done or error
C16_StatusChangesOnce ==
  /\ [](\A id \in DOMAIN _downloads :
          _downloads[id].status \in {"downloading", "done", "error"})
  /\ [][C16_Step]_vars

\* C16 witness: a job has gone from downloading to done and its thread has
\* ended
C16_Witness ==
  \E id \in DOMAIN _downloads :
    _downloads[id].status = "done" /\ tasks[id].pc = "end"

\* C17: every poll sees a consistent snapshot of the job, under every
\* interleaving with the job's thread: a poll answering done also carries
\* progress 100 and the path of the file, a poll answering error also carries
\* the error message
C17_PollSeesWholeTransition ==
  resp.kind = "poll" =>
    /\ resp.job.status = "done" => resp.job.progress = <<100>> /\ resp.job.path # None
    /\ resp.job.status = "error" => resp.job.error # None

\* the authenticated polls, by the id they ask for
Poll(i) == Req("POST", "/download-status", GoodAuth, Raw("object", EmptyMsg, FALSE, i))

\* C18, one step: a poll for an id no job has is answered at once with
\* {ok: true, status: unknown}; a poll for a started id sets out to read the
\* entry and is not answered unknown; no entry leaves the map
C18_Step ==
  /\ \A i \in JobIds \cup {NoJob} :
       DaemonRequest(Poll(i)) =>
         IF i \in DOMAIN _downloads
           THEN /\ handler'.pc = "poll_progress"
                /\ handler'.out.job.status \in {"downloading", "done", "error"}
           ELSE /\ handler'.pc = "idle"
                /\ resp'.ok /\ resp'.status = 200 /\ resp'.kind = "poll"
                /\ resp'.job.status = "unknown"
  /\ handler.pc = "poll_error" /\ handler'.pc = "idle" =>
       /\ handler.req.raw.id \in DOMAIN _downloads
       /\ resp'.kind = "poll" /\ resp'.ok
       /\ resp'.job.status \in {"downloading", "done", "error"}
  /\ DOMAIN _downloads \subseteq DOMAIN _downloads'

\* C18: a poll answers {status: unknown}, and no error, exactly for the ids
\* never started in this process; a started id is never answered unknown,
\* because entries are never removed
C18_UnknownIffNeverStarted ==
  /\ [](handler.pc \in {"poll_progress", "poll_path", "poll_error"} =>
          /\ handler.req.raw.id \in DOMAIN _downloads
          /\ handler.out.job.status # "unknown")
  /\ [][C18_Step]_vars

\* C18 witness: with a job in the map, a poll for another id was answered
\* unknown
C18_Witness ==
  /\ DOMAIN _downloads # {}
  /\ \E id \in DOMAIN _downloads : tasks[id].pc = "end"
  /\ resp.kind = "poll"
  /\ resp.job.status = "unknown"

\* a start-download of a tweet, without direct URL
StartReq == Req("POST", "/download-video", GoodAuth, Raw("object", EmptyMsg, FALSE, NoJob))

\* the thread of job id has not yet left its fetch
Fetching(id) == tasks[id].pc \in {"run", "popen", "lines", "direct_begin", "direct_fetch"}

\* the server thread never waits for a job: it can always take its next step,
\* and between two requests it takes every record write and poll, and every
\* start-download while an id is free; a job still in its fetch is downloading
C19_Serving ==
  /\ \A id \in DOMAIN _downloads : Fetching(id) => _downloads[id].status = "downloading"
  /\ handler.pc = "respond" => ENABLED Respond
  /\ handler.pc \in {"poll_progress", "poll_path", "poll_error"} => ENABLED PollRead
  /\ phase = "serving" /\ handler.pc = "idle" =>
       /\ \A req \in ToolRequests \ {StartReq} : ENABLED DaemonRequest(req)
       /\ DOMAIN _downloads # JobIds =>
            ENABLED (DaemonRequest(StartReq) /\ handler'.pc = "respond")

\* start_download makes the entry, downloading and with nothing else set, and
\* starts the thread; the response carries the id of an entry of the map and
\* waits for nothing the thread does
C19_Step ==
  /\ DaemonRequest(StartReq) /\ handler'.pc = "respond" =>
       /\ handler'.out.downloadId \in DOMAIN _downloads' \ DOMAIN _downloads
       /\ _downloads'[handler'.out.downloadId] =
            [status |-> "downloading", progress |-> <<>>, path |-> None, error |-> None]
       /\ tasks'[handler'.out.downloadId].pc = "run"
  /\ handler.pc = "respond" /\ handler'.pc = "idle" =>
       /\ resp' = handler.out /\ resp'.ok /\ resp'.kind = "download"
       /\ resp'.downloadId \in DOMAIN _downloads'
       /\ UNCHANGED <<_downloads, tasks>>

\* when the response to a start-download is sent, the job is downloading
C19_DownloadingAtResponse ==
  handler.pc = "respond" /\ handler'.pc = "idle" =>
    _downloads'[resp'.downloadId].status = "downloading"

\* C19 as stated: start-download answers with the job id without waiting for
\* the download; when the response is sent the entry exists with status
\* downloading; a job whose tool never terminates stays downloading while
\* every other request (poll, record write, further start-download) is answered
C19_StartAnswersDownloading ==
  /\ []C19_Serving
  /\ [][C19_Step /\ C19_DownloadingAtResponse]_vars

\* C19 amended: the same, but when the response is sent the entry exists with
\* the status the job's thread has given it by then: downloading as long as
\* the thread is in its fetch
C19_StartAnswersAtOnce ==
  /\ []C19_Serving
  /\ [][C19_Step]_vars

\* C19 witness: one job's tool is still running and the job is downloading,
\* while a later start-download was answered and that job is done, a record
\* was written, and a poll has just been answered with downloading
C19_Witness ==
  /\ \E i, j \in DOMAIN _downloads :
       /\ i # j
       /\ tasks[i].pc = "lines" /\ _downloads[i].status = "downloading"
       /\ tasks[j].pc = "end" /\ _downloads[j].status = "done"
  /\ seen_ids # {}
  /\ resp.kind = "poll" /\ resp.job.status = "downloading"

\* the text of the error of a job that has neither tool nor direct URL
NoStrategy == "yt-dlp not found and no direct URL available"

\* the first statement of run() picks the branch from the tool being on the
\* system and the direct URL being given, and from nothing else
C20_Step ==
  \A id \in DOMAIN tasks :
    tasks[id].pc = "run" /\ tasks'[id].pc # "run" =>
      /\ tasks'[id].pc = "popen" <=> ytdlp.installed
      /\ tasks'[id].pc = "direct_begin" <=> ~ytdlp.installed /\ tasks[id].direct
      /\ tasks'[id].pc = "err_status" <=> ~ytdlp.installed /\ ~tasks[id].direct
      /\ tasks'[id].pc = "err_status" => tasks'[id].msg = NoStrategy
      /\ tasks'[id].used = {} /\ _downloads'[id] = NewEntry

\* what each strategy does to the job, whatever the position of its thread
C20_Strategy ==
  \A id \in DOMAIN tasks :
    LET t == tasks[id]
        job == _downloads[id]
    IN  /\ Cardinality(t.used) <= 1
        /\ t.pc \in {"popen", "lines"} \/ "yt-dlp" \in t.used => ytdlp.installed
        /\ t.pc \in {"direct_begin", "direct_fetch"} \/ "direct" \in t.used =>
             /\ ~ytdlp.installed
             /\ job.progress \in {<<>>, <<0>>, <<100>>}
             /\ job.progress = <<>> <=> t.pc = "direct_begin"
             /\ job.status = "done" => job.progress = <<100>>
        /\ t.msg = NoStrategy =>
             /\ ~ytdlp.installed /\ t.used = {}
             /\ t.pc \in {"err_status", "err_error", "end"}
             /\ job.status \in {"downloading", "error"} /\ job.status = "downloading" <=> t.pc = "err_status"
             /\ job.progress = <<>> /\ job.path = None
             /\ t.pc = "end" => job.error = NoStrategy
        /\ t.pc \notin {"run", "popen", "lines", "direct_begin", "direct_fetch"} /\ t.used = {} =>
             t.msg = NoStrategy

Readable(d) == Denied \notin LineSet(RecordLines(d, files))

\* C21: load_seen_ids never raises on malformed file content: every pass
\* started on a directory whose record files can be read completes, whatever
\* the lines are (blank, not JSON, JSON but no object, an object without id),
\* and the ids of the remaining lines are in the seen-id set afterwards
C21_NeverRaisesOnContent ==
  \A d \in Dirs :
    Readable(d) =>
      /\ attempts[d] = scans[d]
      /\ scans[d] > 0 => own[d] \subseteq seen_ids

(* ------------------------------ properties: test-path ------------------ *)
\* the directory a test-path request asks for
TestDir(msg) == IF msg.outputDir = <<>> THEN DEFAULT_OUTPUT_DIR ELSE expanduser(msg.outputDir)

\* C22: a test-path request, on either transport, has no record-store
\* interaction: it leaves the seen-id set and the registry of bootstrapped
\* directories unchanged and reads or writes no record file; on the file
\* system it only creates the requested directory (and its marker file, which
\* it deletes again). The stream host is taken after its storage init.
C22_TestPathTouchesNoRecords ==
  [][\A msg \in {m \in Messages : m.type = "TEST_PATH"} :
       (storage_ready /\ HostMessage(msg)) \/ DaemonPost(msg) =>
         /\ UNCHANGED <<seen_ids, custom_dirs, files, scans, attempts, own>>
         /\ exists' \subseteq exists \cup {TestDir(msg)}]_vars

(* ------------------------------ properties: the server loop ------------ *)
\* the connections whose handler has begun and not returned
Active == {c \in DOMAIN conns : conns[c].pc \notin {"queued", "closed"}}

\* no id was appended twice as a non-article record, no directory scanned twice
NoLostUpdate ==
  /\ \A x \in Ids : SumOver([d \in Dirs |-> appended[d][x]], Dirs) <= 1
  /\ \A d \in Dirs : scans[d] <= 1

\* C23: on the HTTP transport the read-modify-write of the seen-id set and of
\* the registry done by one request is never interleaved with that of another:
\* at most one handler is at work, no id is appended twice (as a non-article
\* record) by two write requests, and no directory is bootstrapped twice
C23_RequestsSerialised ==
  /\ Cardinality(Active) <= 1
  /\ NoLostUpdate

\* C23 witness: two write requests with the same id for the same requested
\* directory, which held no record of it, have both been answered; the
\* directory was scanned once, the record was appended once and the later
\* request counted it as duplicate
C23_Witness ==
  /\ \A c \in DOMAIN conns :
       /\ conns[c].pc = "closed"
       /\ conns[c].body.type = "TWEETS" /\ conns[c].body.outputDir = CustomDir
       /\ conns[c].out.ok
  /\ Cardinality(DOMAIN conns) >= 2
  /\ scans[CustomDir] = 1 /\ appended[CustomDir]["1"] = 1
  /\ resp.ok /\ resp.count = 0 /\ resp.dupes = 1

(* ------------------------------ properties: a job ends ----------------- *)
\* the thread of job id has raised an exception (msg holds its text)
Raised(id) == tasks[id].msg \notin {None, NoStrategy}

\* an exception inside the task is on its way into the entry, or in it; the
\* response to the start-download is the job id, whatever the thread did
C24_Recorded ==
  /\ \A id \in DOMAIN tasks :
       Raised(id) =>
         /\ tasks[id].pc \in {"err_status", "err_error", "end"}
         /\ tasks[id].pc = "end" =>
              _downloads[id].status = "error" /\ _downloads[id].error = tasks[id].msg
  /\ handler.pc = "respond" => handler.out.ok /\ handler.out.kind = "download"
  /\ resp.kind = "download" => resp.ok /\ resp.error = ""

\* C24: under fair scheduling of the job's task, every started job whose
\* fetch (the tool's process or the direct retrieval) terminates eventually
\* reaches done or error; an exception raised inside the task moves the job
\* to error with the exception's message, and is never reported in the
\* start-download response
C24_EveryJobEnds ==
  /\ \A id \in JobIds :
       (id \in DOMAIN _downloads) ~>
         (id \in DOMAIN _downloads /\ _downloads[id].status \in {"done", "error"})
  /\ \A id \in JobIds :
       (id \in DOMAIN tasks /\ Raised(id)) ~>
         (id \in DOMAIN tasks /\ _downloads[id].status = "error"
            /\ _downloads[id].error = tasks[id].msg)
  /\ []C24_Recorded

\* C24 witness: the tool of a job exited with a failure and the job is in
\* error with the exception's message
C24_Witness ==
  \E id \in DOMAIN tasks :
    /\ tasks[id].pc = "end" /\ tasks[id].msg = "yt-dlp failed"
    /\ _downloads[id].status = "error" /\ _downloads[id].error = "yt-dlp failed"

(* ------------------------------ properties: progress ------------------- *)
\* a progress value: absent, or a number within 0..100
InRange(p) == p = <<>> \/ (p[1] >= 0 /\ p[1] <= 100)

\* C25: in every reachable state and for every output the external tool can
\* print, a job's progress is either absent or a number within 0..100, and a
\* poll never returns a progress value outside that range
C25_ProgressInRange ==
  /\ \A id \in DOMAIN _downloads : InRange(_downloads[id].progress)
  /\ resp.kind = "poll" => InRange(resp.job.progress)

(* ------------------------------ properties: a failed write ------------- *)
\* C26: if a write-records request fails partway through a batch (an I/O
\* error on append, or a record that is not an object), every id the request
\* added to the seen-id set belongs to a record line that was appended: once
\* the request has ended, no id is in the set without a record of it in a
\* file, so a retry of the failed records is not rejected as duplicates
C26_SeenIdsArePersisted ==
  transport = "http" /\ phase = "serving" /\ Active = {} =>
    seen_ids \subseteq UNION {FileIds(d, files) : d \in Dirs}

(* ------------------------------ properties: alignment ------------------ *)
\* C27: after a read error on which the stream loop continues, the host is
\* still aligned with the sender's framing. On a stream of one frame: every
\* four bytes the host takes as a length header are the header the sender
\* wrote, the frame is answered with at most one response, and the end of the
\* stream is met between frames
C27_AlignedAfterError ==
  /\ io.pc = "header" /\ BLen(io.buf) = 4 => io.buf = pack(BLen(json_dumps(io.orig)))
  /\ Len(io.sent) <= 1
  /\ io.pc = "done" => ~io.midframe /\ io.raised = "stdin closed"

(* ------------------------------ properties: a failed bootstrap --------- *)
\* load_seen_ids raises on directory d: a record file it may not read, or a
\* line that is JSON but no object
Unscannable(d) == \E l \in LineSet(RecordLines(d, files)) : l.k \in {"denied", "nonobj"}

\* one statement of a handler: when os.makedirs or load_seen_ids raises in
\* resolve_output_dir, the handler goes to its error response with the
\* registry and the seen-id set as they were; a handler that finds its
\* requested directory unregistered scans it
C28_Step ==
  \A c \in DOMAIN conns :
    /\ conns[c].pc \in {"makedirs", "load"} /\ conns'[c].pc = "send" =>
         /\ UNCHANGED <<seen_ids, custom_dirs, scans>>
         /\ ~conns'[c].out.ok
    /\ conns[c].pc = "registry" /\ conns'[c].pc # "registry"
         /\ conns[c].out_dir \in Requested \ custom_dirs => conns'[c].pc = "load"
    /\ conns[c].pc = "load" /\ conns'[c].pc # "load" =>
         attempts'[conns[c].out_dir] = attempts[conns[c].out_dir] + 1

\* C28: if bootstrapping a requested directory fails (its creation or the
\* scan of its files raises), the directory is not added to the registry and
\* the seen-id set is left unchanged, so the next request naming it retries
\* the bootstrap: a registered directory is one whose scan completed, with
\* all ids of its files in the seen-id set
C28_FailedBootstrapRetried ==
  /\ [](\A d \in Requested :
          /\ Unscannable(d) \/ d \notin exists => d \notin custom_dirs /\ scans[d] = 0
          /\ d \in custom_dirs => scans[d] = 1 /\ FileIds(d, files) \subseteq seen_ids)
  /\ [][C28_Step]_vars

\* C28 witness: two requests named a directory whose scan raises; each started
\* a scan and was answered with the error, and the directory is unregistered
C28_Witness ==
  /\ Cardinality(DOMAIN conns) >= 2
  /\ \A c \in DOMAIN conns :
       /\ conns[c].pc = "closed" /\ conns[c].body.outputDir = CustomDir
       /\ conns[c].out.error = "AttributeError"
  /\ attempts[CustomDir] = 2 /\ scans[CustomDir] = 0
  /\ CustomDir \notin custom_dirs
====
